---- MODULE Spec2Model ----
(***************************************************************************)
(* The API layer of the portfolio application: route handlers over the     *)
(* identity provider, the datastore tables (profiles, user_tokens,         *)
(* projects, project_documentation) and the GitHub REST API.               *)
(*                                                                         *)
(* Optional values are sequences: <<>> is null/undefined, <<v>> is v.      *)
(* Tables are sets of rows; a unique constraint is whatever the upsert     *)
(* that names it as its conflict target enforces.                          *)
(***************************************************************************)
EXTENDS Integers, Sequences, FiniteSets, TLC

VARIABLES
    sessions,       \* bearer tokens the identity provider accepts now
    profiles,       \* table profiles: rows [id, role]
    user_tokens,    \* table user_tokens: rows [user_id, github_token, username]
    projects,       \* table projects
    documentation,  \* table project_documentation
    project_documents, \* table project_documents (attachment metadata)
    storage,        \* object storage bucket project_documents: the blob paths
    inflight,       \* handlers suspended at an await between two calls
    resp            \* the response sent last, with the request it answers

vars == <<sessions, profiles, user_tokens, projects, documentation,
          project_documents, storage, inflight, resp>>

tables == <<profiles, user_tokens, projects, documentation, project_documents, storage>>

----------------------------------------------------------------------------
(* Bounds                                                                  *)

MaxStars == 1
MaxInflight == 2
MaxWeeks == 2

----------------------------------------------------------------------------
(* Value domains                                                           *)

None == <<>>
Some(v) == <<v>>

Users == {"uA", "uB"}
BearerTokens == {"tA", "tB"}
UserOfToken == [t \in BearerTokens |-> IF t = "tA" THEN "uA" ELSE "uB"]

\* An Authorization header as the list of words header.split(" ") yields;
\* <<>> is a request without the header.
Headers ==
    { <<>>, <<"Basic", "tA">>, <<"Bearer", "">>, <<"Bearer">>,
      <<"Bearer", "tA">>, <<"bearer", "tB">>, <<"Bearer", "tZ">> }

GithubTokens == {"g1", "g2"}
RepoIds == {101, 102}
UpstreamStatuses == {401, 404}
UpstreamBodies == {"", "Not Found"}

GithubLogin == "octo"
DbErrorMessage == "datastore error"

----------------------------------------------------------------------------
(* Errors and the response envelope                                        *)

\* new Error(message): no status property
PlainError(m) == [message |-> m, status |-> {}]

\* new AuthError(message, status = 401)
AuthError(m) == [message |-> m, status |-> {401}]

\* Object.assign(new Error(message), { status })
StatusError(m, s) == [message |-> m, status |-> {s}]

\* the status every handler's catch block derives from the thrown error
catchStatus(error) ==
    IF error.status # {} THEN CHOOSE s \in error.status : TRUE ELSE 500

standardResponse(success, data, statusCode, error) ==
    [ success     |-> success,
      data        |-> IF success THEN data ELSE None,
      error       |-> IF success THEN None
                      ELSE IF error = None \/ error = Some("")
                           THEN Some("Unexpected error") ELSE error,
      status_code |-> Some(statusCode) ]

\* NextResponse.json(standardResponse(true, data, 200)): transport status 200
Success(data) == [http |-> 200, body |-> standardResponse(TRUE, Some(data), 200, None)]

\* NextResponse.json(standardResponse(true, data, 201), { status: 201 })
Created(data) == [http |-> 201, body |-> standardResponse(TRUE, Some(data), 201, None)]

\* NextResponse.json(standardResponse(false, undefined, s, m), { status: s })
Failure(s, m) == [http |-> s, body |-> standardResponse(FALSE, None, s, Some(m))]

\* catch (error) { ... } of the route handlers
Caught(error) == Failure(catchStatus(error), error.message)

\* The response leaves the handler. It is kept with the request it answers,
\* the verified caller, the external calls made for it in order, and what
\* the GitHub API answered to it.
Reply(route, req, user, out, calls, upstream) ==
    resp' = [ route |-> route, req |-> req, user |-> user,
              http |-> out.http, body |-> out.body, calls |-> calls,
              upstream |-> upstream ]

----------------------------------------------------------------------------
(* Session verifier                                                        *)

toLowerCase(w) ==
    CASE w \in {"Bearer", "bearer"} -> "bearer"
      [] w = "Basic" -> "basic"
      [] OTHER -> w

extractBearerToken(authHeader) ==
    IF authHeader = <<>> THEN None
    ELSE LET scheme == authHeader[1]
             token  == IF Len(authHeader) >= 2 THEN Some(authHeader[2]) ELSE None
         IN  IF toLowerCase(scheme) # "bearer" \/ token = None \/ token = Some("")
             THEN None
             ELSE token

\* the request's header first, then next/headers: the same header both times
getTokenFromRequest(header) ==
    IF extractBearerToken(header) # None THEN extractBearerToken(header)
    ELSE extractBearerToken(header)

\* [user, error, calls]: the verified user, or the AuthError thrown
assertSupabaseUser(header, accepted) ==
    LET accessToken == getTokenFromRequest(header) IN
    IF accessToken = None
    THEN [user |-> None, error |-> Some(AuthError("Missing Authorization header")),
          calls |-> <<>>]
    ELSE IF accessToken[1] \notin accepted
    THEN [user |-> None, error |-> Some(AuthError("invalid JWT")), calls |-> <<"idp">>]
    ELSE [user |-> Some(UserOfToken[accessToken[1]]), error |-> None,
          calls |-> <<"idp">>]

----------------------------------------------------------------------------
(* Datastore queries                                                       *)

\* .maybeSingle(): null for no row, the row for one, an error for several
maybeSingle(rows) ==
    IF Cardinality(rows) > 1
    THEN [data |-> None, error |-> Some(PlainError("multiple rows returned"))]
    ELSE IF rows = {} THEN [data |-> None, error |-> None]
    ELSE [data |-> Some(CHOOSE r \in rows : TRUE), error |-> None]

\* a query the datastore may fail as a whole
Query(dbOk, result) ==
    IF dbOk THEN result ELSE [data |-> None, error |-> Some(PlainError(DbErrorMessage))]

\* .insert(record): the write without its conflict target
insertUserToken(table, record) == table \cup {record}

\* .upsert(record, { onConflict: key }): the row with the record's key takes
\* the record's columns and keeps its others; without one the record is inserted
upsertUserToken(table, record) ==
    {r \in table : r.user_id # record.user_id} \cup {record}

\* [token, error]
getGithubTokenForUser(userId, table, dbOk) ==
    LET q == Query(dbOk, maybeSingle({r \in table : r.user_id = userId})) IN
    IF q.error # None THEN [token |-> None, error |-> Some(PlainError(q.error[1].message))]
    ELSE IF q.data = None \/ q.data[1].github_token = ""
    THEN [token |-> None, error |-> Some(PlainError("GitHub token not found for user"))]
    ELSE [token |-> Some(q.data[1].github_token), error |-> None]

\* [data, error]
getProfileByUserId(userId, table, dbOk) ==
    LET q == Query(dbOk, maybeSingle({r \in table : r.id = userId})) IN
    IF q.error # None THEN [data |-> None, error |-> Some(PlainError(q.error[1].message))]
    ELSE [data |-> q.data, error |-> None]

----------------------------------------------------------------------------
(* Repository client                                                       *)

FailedWith(status) ==
    CASE status = 401 -> "GitHub request failed with 401"
      [] status = 404 -> "GitHub request failed with 404"
      [] OTHER -> "GitHub request failed"

\* what the GitHub API may answer: a 2xx with a JSON body, or a non-2xx with text
GithubOk(json) == [ok |-> TRUE, status |-> 200, text |-> "", json |-> Some(json)]
GithubErrors ==
    [ok : {FALSE}, status : UpstreamStatuses, text : UpstreamBodies, json : {None}]

\* the request without its if (!response.ok) branch
githubRequestUnchecked(response) ==
    [ json  |-> IF response.ok THEN response.json ELSE Some([id |-> 0, login |-> ""]),
      error |-> None ]

\* [json, error]
githubRequest(response) ==
    IF ~response.ok
    THEN [json |-> None,
          error |-> Some(PlainError(IF response.text # "" THEN response.text
                                    ELSE FailedWith(response.status)))]
    ELSE [json |-> response.json, error |-> None]

GithubUserResponses == {GithubOk([id |-> 7, login |-> GithubLogin])} \cup GithubErrors

GithubRepoOk(ids, stars) ==
    {GithubOk([id |-> i, stargazers_count |-> Some(s)]) : i \in ids, s \in stars}

GithubRepoResponses == GithubRepoOk(RepoIds, 0..MaxStars) \cup GithubErrors

\* a ?? b
Coalesce(a, b) == IF a = None THEN b ELSE a[1]

----------------------------------------------------------------------------
(* Initial state                                                           *)

NoResponse ==
    [ route |-> "none", req |-> [header |-> <<>>], user |-> None,
      http |-> 200, body |-> standardResponse(TRUE, None, 200, None),
      calls |-> <<>>, upstream |-> <<>> ]

\* Profile rows are created outside the API layer, with role developer;
\* every other table starts empty and nobody is signed in.
Init ==
    /\ sessions = {}
    /\ \E withProfile \in SUBSET Users :
            profiles = {[id |-> u, role |-> "developer"] : u \in withProfile}
    /\ user_tokens = {}
    /\ projects = {}
    /\ documentation = {}
    /\ project_documents = {}
    /\ storage = {}
    /\ inflight = {}
    /\ resp = NoResponse

----------------------------------------------------------------------------
(* Identity provider                                                       *)

\* supabase.auth.setSession: the provider accepts the token from now on
SignIn(t) ==
    /\ t \notin sessions
    /\ sessions' = sessions \cup {t}
    /\ UNCHANGED <<tables, inflight, resp>>

\* supabase.auth.signOut, or expiry: the provider rejects the token from now on
SignOut(t) ==
    /\ t \in sessions
    /\ sessions' = sessions \ {t}
    /\ UNCHANGED <<tables, inflight, resp>>

----------------------------------------------------------------------------
(* POST /api/auth/store-github-token                                       *)

StoreBodies == [provider_token : {None, Some("")} \cup {Some(g) : g \in GithubTokens}]

\* z.string().min(1, "provider_token is required")
payloadSchema(body) ==
    IF body.provider_token = None \/ body.provider_token = Some("")
    THEN [data |-> None, error |-> Some(PlainError("ZodError: provider_token"))]
    ELSE [data |-> Some(body), error |-> None]

StoreRoute == "POST /api/auth/store-github-token"

\* the handler up to and including await fetchGithubUser(provider_token)
StoreTokenFetch(header, body) ==
    LET auth   == assertSupabaseUser(header, sessions)
        req    == [header |-> header, body |-> body]
        parsed == payloadSchema(body)
    IN
    /\ UNCHANGED <<sessions, tables>>
    /\ IF auth.error # None
       THEN /\ Reply(StoreRoute, req, None, Caught(auth.error[1]), auth.calls, <<>>)
            /\ UNCHANGED inflight
       ELSE IF parsed.error # None
       THEN /\ Reply(StoreRoute, req, auth.user, Caught(parsed.error[1]), auth.calls, <<>>)
            /\ UNCHANGED inflight
       ELSE \E gh \in GithubUserResponses :
            LET github == githubRequest(gh)
                calls  == auth.calls \o <<"github">>
            IN
            IF github.error # None
            THEN /\ Reply(StoreRoute, req, auth.user, Caught(github.error[1]), calls, <<gh>>)
                 /\ UNCHANGED inflight
            ELSE /\ Cardinality(inflight) < MaxInflight
                 /\ inflight' = inflight \cup
                      {[ kind |-> "store", req |-> req, user |-> auth.user[1],
                         record |-> [ user_id      |-> auth.user[1],
                                      github_token |-> body.provider_token[1],
                                      username     |-> github.json[1].login ],
                         calls |-> calls, upstream |-> <<gh>> ]}
                 /\ UNCHANGED resp

\* the rest of the handler: the upsert and the response
StoreTokenUpsert(c) ==
    LET calls == c.calls \o <<"db.user_tokens">> IN
    /\ c \in inflight
    /\ c.kind = "store"
    /\ inflight' = inflight \ {c}
    /\ UNCHANGED <<sessions, profiles, projects, documentation, project_documents, storage>>
    /\ \E dbOk \in BOOLEAN :
        IF dbOk
        THEN /\ user_tokens' = upsertUserToken(user_tokens, c.record)
             /\ Reply(StoreRoute, c.req, Some(c.user),
                      Success([message |-> "GitHub token stored"]), calls, c.upstream)
        ELSE /\ UNCHANGED user_tokens
             /\ Reply(StoreRoute, c.req, Some(c.user),
                      Caught(PlainError(DbErrorMessage)), calls, c.upstream)

----------------------------------------------------------------------------
(* The handlers that read GitHub on the caller's behalf                    *)

\* const user = await assertSupabaseUser(request);
\* const githubToken = await getGithubTokenForUser(user.id);
\* [user, token, error, calls]
withGithubToken(header, dbOk) ==
    LET auth  == assertSupabaseUser(header, sessions)
        vault == getGithubTokenForUser(auth.user[1], user_tokens, dbOk)
    IN  IF auth.error # None
        THEN [user |-> None, token |-> None, error |-> auth.error, calls |-> auth.calls]
        ELSE [user |-> auth.user, token |-> vault.token, error |-> vault.error,
              calls |-> auth.calls \o <<"db.user_tokens">>]

\* a handler that has nothing left to do but answer
Answer(route, req, user, out, calls, upstream) ==
    /\ Reply(route, req, user, out, calls, upstream)
    /\ UNCHANGED <<sessions, tables, inflight>>

GithubUserRoute == "GET /api/github/user"
GithubReposRoute == "GET /api/github/repos"
GithubActivityRoute == "GET /api/github/activity"
GithubContributionsRoute == "GET /api/github/contributions"
ProfileRepoRoute == "GET /api/github/profile-repo"

GithubUserGet(header) ==
    LET req == [header |-> header] IN
    \E dbOk \in BOOLEAN :
        LET pre == withGithubToken(header, dbOk) IN
        IF pre.error # None
        THEN Answer(GithubUserRoute, req, pre.user, Caught(pre.error[1]), pre.calls, <<>>)
        ELSE
            \E gh \in GithubUserResponses :
                LET profile == githubRequest(gh) IN
                Answer(GithubUserRoute, req, pre.user,
                       IF profile.error # None THEN Caught(profile.error[1])
                       ELSE Success([github_id |-> profile.json[1].id,
                                     username  |-> profile.json[1].login]),
                       pre.calls \o <<"github">>, <<gh>>)

\* mapRepo
mapRepo(repo) ==
    [id |-> repo.id, stargazers_count |-> Coalesce(repo.stargazers_count, 0)]

GithubRepoListResponses ==
    {GithubOk(<<>>), GithubOk(<<[id |-> 101, stargazers_count |-> Some(0)]>>)}
        \cup GithubErrors

\* full_name given: one repository; otherwise the caller's repositories
GithubReposGet(header, fullName) ==
    LET req == [header |-> header] IN
    \E dbOk \in BOOLEAN :
        LET pre == withGithubToken(header, dbOk) IN
        IF pre.error # None
        THEN Answer(GithubReposRoute, req, pre.user, Caught(pre.error[1]), pre.calls, <<>>)
        ELSE
            IF fullName # None
            THEN \E gh \in GithubRepoOk({101}, {0}) \cup GithubErrors :
                    LET repo == githubRequest(gh) IN
                    Answer(GithubReposRoute, req, pre.user,
                           IF repo.error # None THEN Caught(repo.error[1])
                           ELSE Success(mapRepo(repo.json[1])),
                           pre.calls \o <<"github">>, <<gh>>)
            ELSE \E gh \in GithubRepoListResponses :
                    LET repos == githubRequest(gh) IN
                    Answer(GithubReposRoute, req, pre.user,
                           IF repos.error # None THEN Caught(repos.error[1])
                           ELSE Success([i \in 1..Len(repos.json[1]) |->
                                            mapRepo(repos.json[1][i])]),
                           pre.calls \o <<"github">>, <<gh>>)

\* the longest feed GitHub answers
MaxFeed == 11

\* the i-th event of a feed; an event may come without its repo
GithubEvent(i) ==
    [ id |-> i,
      type |-> IF i % 2 = 0 THEN "PushEvent" ELSE "WatchEvent",
      actor |-> GithubLogin,
      repo |-> IF i % 4 = 0 THEN None ELSE Some([id |-> 101, name |-> <<"a", "/", "a">>]),
      created_at |-> i ]

GithubEventResponses ==
    {GithubOk([i \in 1..n |-> GithubEvent(i)]) : n \in 0..MaxFeed} \cup GithubErrors

\* { id, type, repo: event.repo?.name, created_at }
mapEvent(event) ==
    [ id |-> event.id,
      type |-> event.type,
      repo |-> IF event.repo = None THEN None ELSE Some(event.repo[1].name),
      created_at |-> event.created_at ]

\* the feed as it came, whatever its length
sliceAll(events, n) == events

slice(events, n) == SubSeq(events, 1, IF Len(events) < n THEN Len(events) ELSE n)

GithubActivityGet(header) ==
    LET req == [header |-> header] IN
    \E dbOk \in BOOLEAN :
        LET pre == withGithubToken(header, dbOk) IN
        IF pre.error # None
        THEN Answer(GithubActivityRoute, req, pre.user, Caught(pre.error[1]), pre.calls, <<>>)
        ELSE
            \E gh1 \in GithubUserResponses :
                LET profile == githubRequest(gh1) IN
                IF profile.error # None
                THEN Answer(GithubActivityRoute, req, pre.user, Caught(profile.error[1]),
                            pre.calls \o <<"github">>, <<gh1>>)
                ELSE \E gh2 \in GithubEventResponses :
                        LET events == githubRequest(gh2) IN
                        Answer(GithubActivityRoute, req, pre.user,
                               IF events.error # None THEN Caught(events.error[1])
                               ELSE LET first == slice(events.json[1], 10) IN
                                    Success([i \in 1..Len(first) |-> mapEvent(first[i])]),
                               pre.calls \o <<"github", "github">>, <<gh1, gh2>>)

\* a week of the calendar: its contributionDays, each with a date and a count
Week(label, days, shift) ==
    [d \in 1..days |-> [date |-> <<label, d>>, contributionCount |-> (d + shift) % 3]]

\* full weeks and a partial one, as the calendar's first and last weeks are
Weeks == {Week("w1", 7, 0), Week("w2", 7, 1), Week("w3", 7, 2), Week("w4", 3, 0)}

\* the sequences over set of length n
SeqsOfLength(set, n) == [1..n -> set]

Calendars ==
    {[totalContributions |-> Len(weeks), weeks |-> weeks] :
        weeks \in UNION {SeqsOfLength(Weeks, n) : n \in 0..MaxWeeks}}

GithubCalendarResponses ==
    {GithubOk([calendar |-> None])} \cup {GithubOk([calendar |-> Some(c)]) : c \in Calendars}
        \cup GithubErrors

\* weeks.map(week => week.contributionDays[0]): one entry per week
firstDays(weeks) ==
    [w \in 1..Len(weeks) |->
        [date |-> weeks[w][1].date, count |-> weeks[w][1].contributionCount]]

RECURSIVE flatMap(_)
flatMap(weeks) ==
    IF weeks = <<>> THEN <<>>
    ELSE [i \in 1..Len(Head(weeks)) |->
            [date |-> Head(weeks)[i].date, count |-> Head(weeks)[i].contributionCount]]
         \o flatMap(Tail(weeks))

GithubContributionsGet(header) ==
    LET req == [header |-> header] IN
    \E dbOk \in BOOLEAN :
        LET pre == withGithubToken(header, dbOk) IN
        IF pre.error # None
        THEN Answer(GithubContributionsRoute, req, pre.user, Caught(pre.error[1]), pre.calls, <<>>)
        ELSE
            \E gh \in GithubCalendarResponses :
                LET data == githubRequest(gh) IN
                Answer(GithubContributionsRoute, req, pre.user,
                       IF data.error # None THEN Caught(data.error[1])
                       ELSE LET calendar == data.json[1].calendar IN
                            Success([ total_contributions |->
                                        IF calendar = None THEN 0
                                        ELSE calendar[1].totalContributions,
                                      contributions |->
                                        IF calendar = None THEN <<>>
                                        ELSE flatMap(calendar[1].weeks) ]),
                       pre.calls \o <<"github">>, <<gh>>)

GithubReadmeResponses == {GithubOk([content |-> "readme"])} \cup GithubErrors

\* the lookup without the try around the README fetch
fetchGithubProfileRepoStrict(ghRepo, ghReadme) ==
    LET repo   == githubRequest(ghRepo)
        readme == githubRequest(ghReadme)
    IN  IF repo.error # None
        THEN [repo |-> None, readme |-> None, error |-> repo.error]
        ELSE IF readme.error # None
        THEN [repo |-> None, readme |-> None, error |-> readme.error]
        ELSE [repo |-> repo.json, readme |-> Some(readme.json[1].content),
              error |-> None]

\* [repo, readme, error]: the README fetch is best effort
fetchGithubProfileRepo(ghRepo, ghReadme) ==
    LET repo   == githubRequest(ghRepo)
        readme == githubRequest(ghReadme)
    IN  IF repo.error # None
        THEN [repo |-> None, readme |-> None, error |-> repo.error]
        ELSE [repo |-> repo.json,
              readme |-> IF readme.error # None THEN None
                         ELSE Some(readme.json[1].content),
              error |-> None]

ProfileRepoGet(header) ==
    LET req == [header |-> header] IN
    \E dbOk \in BOOLEAN :
        LET pre == withGithubToken(header, dbOk) IN
        IF pre.error # None
        THEN Answer(ProfileRepoRoute, req, pre.user, Caught(pre.error[1]), pre.calls, <<>>)
        ELSE
            \E gh1 \in GithubUserResponses :
                LET profile == githubRequest(gh1) IN
                IF profile.error # None
                THEN Answer(ProfileRepoRoute, req, pre.user, Caught(profile.error[1]),
                            pre.calls \o <<"github">>, <<gh1>>)
                ELSE \E gh2 \in GithubRepoOk({101}, {0}) \cup GithubErrors :
                        IF ~gh2.ok
                        THEN Answer(ProfileRepoRoute, req, pre.user,
                                    Caught(githubRequest(gh2).error[1]),
                                    pre.calls \o <<"github", "github">>, <<gh1, gh2>>)
                        ELSE \E gh3 \in GithubReadmeResponses :
                                LET r == fetchGithubProfileRepo(gh2, gh3) IN
                                Answer(ProfileRepoRoute, req, pre.user,
                                       IF r.error # None THEN Caught(r.error[1])
                                       ELSE Success([ stars |-> r.repo[1].stargazers_count,
                                                      readme_content |-> r.readme ]),
                                       pre.calls \o <<"github", "github", "github">>,
                                       <<gh1, gh2, gh3>>)

----------------------------------------------------------------------------
(* POST /api/projects: import a repository                                 *)

ImportRoute == "POST /api/projects"

\* a repository name is the sequence of its characters
Slash == "/"
WellFormedNames == { <<"a", "/", "a">> }
MalformedNames ==
    { <<>>, <<"a">>, <<"a", "a">>, <<"/", "a">>, <<"a", "/">>, <<"/">>,
      <<"a", "/", "/", "a">>, <<"a", "/", "a", "/", "a">>, <<"a", "/", "a", "/">> }
ImportBodies ==
    [repository_full_name : {None} \cup {Some(n) : n \in WellFormedNames \cup MalformedNames}]

\* /^[^/]+\/[^/]+$/ : one or more non-slashes, a slash, one or more
\* non-slashes, and the end of the string
matchesOwnerRepo(name) ==
    \E i \in 1..Len(name) :
        /\ i > 1
        /\ \A j \in 1..(i - 1) : name[j] # Slash
        /\ name[i] = Slash
        /\ i < Len(name)
        /\ \A j \in (i + 1)..Len(name) : name[j] # Slash

\* the schema without its .regex(...)
importSchemaNoPattern(body) ==
    IF body.repository_full_name = None \/ Len(body.repository_full_name[1]) < 1
    THEN [data |-> None, error |-> Some(PlainError("ZodError: repository_full_name"))]
    ELSE [data |-> Some(body), error |-> None]

\* z.object({ repository_full_name: z.string().min(1).regex(...) })
importSchema(body) ==
    IF \/ body.repository_full_name = None
       \/ Len(body.repository_full_name[1]) < 1
       \/ ~matchesOwnerRepo(body.repository_full_name[1])
    THEN [data |-> None, error |-> Some(PlainError("ZodError: repository_full_name"))]
    ELSE [data |-> Some(body), error |-> None]

\* the columns an insert leaves to the table's defaults
ProjectDefaults == [notes |-> None, tags |-> <<>>, status |-> "draft", updated_at |-> 0]

\* the id the datastore gives a new row: rows are never deleted
newId(table) == Cardinality(table) + 1

\* .insert(record): the write without its conflict target
insertProject(table, record) ==
    table \cup
    {[ id |-> newId(table),
       user_id |-> record.user_id,
       github_repo_id |-> record.github_repo_id,
       repository_full_name |-> record.repository_full_name,
       stars |-> record.stars,
       notes |-> ProjectDefaults.notes,
       tags |-> ProjectDefaults.tags,
       status |-> ProjectDefaults.status,
       updated_at |-> ProjectDefaults.updated_at ]}

\* the upsert with user_id left out of the columns a conflict updates
upsertProjectKeepOwner(table, record) ==
    LET hit == {r \in table : r.github_repo_id = record.github_repo_id} IN
    IF hit = {} THEN insertProject(table, record)
    ELSE (table \ hit) \cup
         {[ r EXCEPT !.repository_full_name = record.repository_full_name,
                     !.stars = record.stars ] : r \in hit}

\* the upsert as a replacement of the row: the metadata start over
replaceProject(table, record) ==
    LET hit == {r \in table : r.github_repo_id = record.github_repo_id} IN
    (table \ hit) \cup
    {[ id |-> IF hit = {} THEN newId(table) ELSE (CHOOSE r \in hit : TRUE).id,
       user_id |-> record.user_id,
       github_repo_id |-> record.github_repo_id,
       repository_full_name |-> record.repository_full_name,
       stars |-> record.stars,
       notes |-> ProjectDefaults.notes,
       tags |-> ProjectDefaults.tags,
       status |-> ProjectDefaults.status,
       updated_at |-> ProjectDefaults.updated_at ]}

\* .upsert(record, { onConflict: "github_repo_id" })
upsertProject(table, record) ==
    LET hit == {r \in table : r.github_repo_id = record.github_repo_id} IN
    IF hit = {}
    THEN table \cup
         {[ id |-> newId(table),
            user_id |-> record.user_id,
            github_repo_id |-> record.github_repo_id,
            repository_full_name |-> record.repository_full_name,
            stars |-> record.stars,
            notes |-> ProjectDefaults.notes,
            tags |-> ProjectDefaults.tags,
            status |-> ProjectDefaults.status,
       updated_at |-> ProjectDefaults.updated_at ]}
    ELSE (table \ hit) \cup
         {[ r EXCEPT !.user_id = record.user_id,
                     !.repository_full_name = record.repository_full_name,
                     !.stars = record.stars ] : r \in hit}

ProjectsImport(header, body, repoResponses) ==
    LET auth   == assertSupabaseUser(header, sessions)
        req    == [header |-> header, body |-> body]
        parsed == importSchema(body)
    IN
    /\ UNCHANGED <<sessions, profiles, user_tokens, documentation, project_documents,
                   storage, inflight>>
    /\ IF auth.error # None
       THEN /\ Reply(ImportRoute, req, None, Caught(auth.error[1]), auth.calls, <<>>)
            /\ UNCHANGED projects
       ELSE IF parsed.error # None
       THEN /\ Reply(ImportRoute, req, auth.user, Caught(parsed.error[1]), auth.calls, <<>>)
            /\ UNCHANGED projects
       ELSE \E dbOk1 \in BOOLEAN :
            LET vault  == getGithubTokenForUser(auth.user[1], user_tokens, dbOk1)
                calls1 == auth.calls \o <<"db.user_tokens">>
            IN
            IF vault.error # None
            THEN /\ Reply(ImportRoute, req, auth.user, Caught(vault.error[1]), calls1, <<>>)
                 /\ UNCHANGED projects
            ELSE \E gh \in repoResponses :
                 LET repo   == githubRequest(gh)
                     calls2 == calls1 \o <<"github">>
                 IN
                 IF repo.error # None
                 THEN /\ Reply(ImportRoute, req, auth.user, Caught(repo.error[1]),
                               calls2, <<gh>>)
                      /\ UNCHANGED projects
                 ELSE \E dbOk2 \in BOOLEAN :
                      LET record == [ user_id |-> auth.user[1],
                                      github_repo_id |-> repo.json[1].id,
                                      repository_full_name |-> body.repository_full_name[1],
                                      stars |-> Coalesce(repo.json[1].stargazers_count, 0) ]
                          table  == upsertProject(projects, record)
                          calls3 == calls2 \o <<"db.projects">>
                      IN
                      IF ~dbOk2
                      THEN /\ Reply(ImportRoute, req, auth.user,
                                    Caught(PlainError(DbErrorMessage)), calls3, <<gh>>)
                           /\ UNCHANGED projects
                      ELSE LET q == maybeSingle({r \in table :
                                        r.github_repo_id = record.github_repo_id}) IN
                           /\ projects' = table
                           /\ IF q.error # None \/ q.data = None
                              THEN Reply(ImportRoute, req, auth.user,
                                         Caught(PlainError("no single row returned")),
                                         calls3, <<gh>>)
                              ELSE Reply(ImportRoute, req, auth.user, Created(q.data[1]),
                                         calls3, <<gh>>)

----------------------------------------------------------------------------
(* Role promotion                                                          *)

PromoteSelfRoute == "POST promote-self"
PromoteByIdRoute == "POST promote-by-id"

\* the update as a switch of the role
toggleRole(table, userId) ==
    {IF r.id = userId
     THEN [r EXCEPT !.role = IF @ = "expert" THEN "developer" ELSE "expert"]
     ELSE r : r \in table}

\* .from("profiles").update({ role: "expert" }).eq("id", userId)
updateRole(table, userId) ==
    {IF r.id = userId THEN [r EXCEPT !.role = "expert"] ELSE r : r \in table}

\* NextResponse.json({ success, message | error }, { status }): no status_code
Bare(success, http, text) ==
    [ http |-> http,
      body |-> [ success |-> success, data |-> None,
                 error |-> IF success THEN None ELSE Some(text),
                 status_code |-> None ] ]

\* the caller promotes themself: every thrown error is answered 500
PromoteSelf(header) ==
    LET auth == assertSupabaseUser(header, sessions)
        req  == [header |-> header]
    IN
    /\ UNCHANGED <<sessions, user_tokens, projects, documentation, project_documents,
                   storage, inflight>>
    /\ IF auth.error # None
       THEN /\ Reply(PromoteSelfRoute, req, None,
                     Bare(FALSE, 500, auth.error[1].message), auth.calls, <<>>)
            /\ UNCHANGED profiles
       ELSE \E dbOk \in BOOLEAN :
            IF ~dbOk
            THEN /\ Reply(PromoteSelfRoute, req, auth.user,
                          Bare(FALSE, 500, DbErrorMessage),
                          auth.calls \o <<"db.profiles">>, <<>>)
                 /\ UNCHANGED profiles
            ELSE /\ profiles' = updateRole(profiles, auth.user[1])
                 /\ Reply(PromoteSelfRoute, req, auth.user, Bare(TRUE, 200, ""),
                          auth.calls \o <<"db.profiles">>, <<>>)

\* anyone promotes the user the body names: the handler verifies no caller
PromoteById(header, userId) ==
    LET req == [header |-> header, user_id |-> userId] IN
    /\ UNCHANGED <<sessions, user_tokens, projects, documentation, project_documents,
                   storage, inflight>>
    /\ IF userId = None
       THEN /\ Reply(PromoteByIdRoute, req, None,
                     Bare(FALSE, 400, "user_id is required"), <<>>, <<>>)
            /\ UNCHANGED profiles
       ELSE \E dbOk \in BOOLEAN :
            IF ~dbOk
            THEN /\ Reply(PromoteByIdRoute, req, None, Bare(FALSE, 500, DbErrorMessage),
                          <<"db.profiles">>, <<>>)
                 /\ UNCHANGED profiles
            ELSE /\ profiles' = updateRole(profiles, userId[1])
                 /\ Reply(PromoteByIdRoute, req, None, Bare(TRUE, 200, ""),
                          <<"db.profiles">>, <<>>)

----------------------------------------------------------------------------
(* GET and PATCH /api/projects/{id}                                        *)

ProjectGetRoute == "GET /api/projects/{id}"
ProjectPatchRoute == "PATCH /api/projects/{id}"

\* A JSON value of a request body is a sequence of strings: <<>> for an absent
\* field, <<"null">>, <<"str", s>>, <<"num", n>>, <<"arr", s1, ..., sn>>.
Absent == <<>>
JsonNull == <<"null">>
JsonString(s) == <<"str", s>>

StatusValues == {"draft", "in_review", "published"}

\* z.object({ notes: z.string().nullable().optional(),
\*            tags: z.array(z.string()).optional(),
\*            status: z.enum([...]).optional() })
patchSchema(body) ==
    IF /\ body.notes = Absent \/ body.notes = JsonNull \/ body.notes[1] = "str"
       /\ body.tags = Absent \/ body.tags[1] = "arr"
       /\ body.status = Absent
            \/ (body.status[1] = "str" /\ body.status[2] \in StatusValues)
    THEN [data |-> Some(body), error |-> None]
    ELSE [data |-> None, error |-> Some(PlainError("ZodError: project update"))]

\* the update without its updated_at
applyPatchKeepTime(row, payload, now) ==
    [ row EXCEPT
        !.notes  = IF payload.notes = Absent THEN @
                   ELSE IF payload.notes = JsonNull THEN None ELSE Some(payload.notes[2]),
        !.tags   = IF payload.tags = Absent THEN @ ELSE Tail(payload.tags),
        !.status = IF payload.status = Absent THEN @ ELSE payload.status[2] ]

\* the spread of updatePayload over the stored row; now is new Date()
applyPatch(row, payload, now) ==
    [ row EXCEPT
        !.notes  = IF payload.notes = Absent THEN @
                   ELSE IF payload.notes = JsonNull THEN None ELSE Some(payload.notes[2]),
        !.tags   = IF payload.tags = Absent THEN @ ELSE Tail(payload.tags),
        !.status = IF payload.status = Absent THEN @ ELSE payload.status[2],
        !.updated_at = now ]

\* the latest time new Date() answers
MaxClock == 2

\* failAt = i: the handler's i-th datastore query fails; 0: none does
Fails(failAt, i) == failAt = i

isExpertProfile(profile) == profile # None /\ profile[1].role = "expert"

ProjectGet(header, pid) ==
    LET auth == assertSupabaseUser(header, sessions)
        req  == [header |-> header, id |-> pid]
    IN
    IF auth.error # None
    THEN Answer(ProjectGetRoute, req, None, Caught(auth.error[1]), auth.calls, <<>>)
    ELSE \E failAt \in 0..2 :
        LET user    == auth.user[1]
            profile == getProfileByUserId(user, profiles, ~Fails(failAt, 1))
            q       == Query(~Fails(failAt, 2), maybeSingle({r \in projects : r.id = pid}))
            calls1  == auth.calls \o <<"db.profiles">>
            calls2  == calls1 \o <<"db.projects">>
        IN
        IF profile.error # None
        THEN Answer(ProjectGetRoute, req, auth.user, Caught(profile.error[1]), calls1, <<>>)
        ELSE IF q.error # None
        THEN Answer(ProjectGetRoute, req, auth.user,
                    Caught(PlainError(q.error[1].message)), calls2, <<>>)
        ELSE IF q.data = None
        THEN Answer(ProjectGetRoute, req, auth.user,
                    Failure(404, "Project not found"), calls2, <<>>)
        ELSE IF q.data[1].user_id # user /\ ~isExpertProfile(profile.data)
        THEN Answer(ProjectGetRoute, req, auth.user,
                    Failure(403, "Not authorized"), calls2, <<>>)
        ELSE Answer(ProjectGetRoute, req, auth.user,
                    Success([ project |-> q.data[1],
                              documents |-> {d \in project_documents :
                                                d.project_id = pid} ]),
                    calls2, <<>>)

ProjectPatch(header, pid, body, now) ==
    LET auth == assertSupabaseUser(header, sessions)
        req  == [header |-> header, id |-> pid, body |-> body, at |-> now]
    IN
    /\ UNCHANGED <<sessions, profiles, user_tokens, documentation, project_documents,
                   storage, inflight>>
    /\ IF auth.error # None
       THEN /\ Reply(ProjectPatchRoute, req, None, Caught(auth.error[1]), auth.calls, <<>>)
            /\ UNCHANGED projects
       ELSE \E failAt \in 0..3 :
        LET user    == auth.user[1]
            profile == getProfileByUserId(user, profiles, ~Fails(failAt, 1))
            payload == patchSchema(body)
            q       == Query(~Fails(failAt, 2), maybeSingle({r \in projects : r.id = pid}))
            calls1  == auth.calls \o <<"db.profiles">>
            calls2  == calls1 \o <<"db.projects">>
            calls3  == calls2 \o <<"db.projects">>
            out(o, calls) == /\ Reply(ProjectPatchRoute, req, auth.user, o, calls, <<>>)
                             /\ UNCHANGED projects
        IN
        IF profile.error # None THEN out(Caught(profile.error[1]), calls1)
        ELSE IF payload.error # None THEN out(Caught(payload.error[1]), calls1)
        ELSE IF q.error # None THEN out(Caught(PlainError(q.error[1].message)), calls2)
        ELSE IF q.data = None THEN out(Failure(404, "Project not found"), calls2)
        ELSE IF q.data[1].user_id # user /\ ~isExpertProfile(profile.data)
        THEN out(Failure(403, "Not authorized"), calls2)
        ELSE IF Fails(failAt, 3) THEN out(Caught(PlainError(DbErrorMessage)), calls3)
        ELSE /\ projects' = {IF r.id = pid THEN applyPatch(r, body, now) ELSE r : r \in projects}
             /\ Reply(ProjectPatchRoute, req, auth.user,
                      Success(applyPatch(q.data[1], body, now)), calls3, <<>>)

----------------------------------------------------------------------------
(* Access to a project's documentation and attachments                     *)

\* [project, isOwner, isExpert, error, calls]; failAt as in the handlers:
\* query 1 reads the caller's profile, query 2 the project
ensureAccess(projectId, userId, failAt) ==
    LET profile  == getProfileByUserId(userId, profiles, ~Fails(failAt, 1))
        q        == Query(~Fails(failAt, 2), maybeSingle({r \in projects : r.id = projectId}))
        isExpert == isExpertProfile(profile.data)
        isOwner  == q.data # None /\ q.data[1].user_id = userId
        result(project, owner, expert, error, calls) ==
            [ project |-> project, isOwner |-> owner, isExpert |-> expert,
              error |-> error, calls |-> calls ]
    IN
    IF profile.error # None
    THEN result(None, FALSE, FALSE, profile.error, <<"db.profiles">>)
    ELSE IF q.error # None
    THEN result(None, FALSE, FALSE, Some(PlainError(q.error[1].message)),
                <<"db.profiles", "db.projects">>)
    ELSE IF q.data = None
    THEN result(None, FALSE, isExpert, None, <<"db.profiles", "db.projects">>)
    ELSE IF ~isOwner /\ ~isExpert
    THEN result(None, FALSE, FALSE, Some(StatusError("Not authorized", 403)),
                <<"db.profiles", "db.projects">>)
    ELSE result(q.data, isOwner, isExpert, None, <<"db.profiles", "db.projects">>)

----------------------------------------------------------------------------
(* GET and PUT /api/projects/{id}/documentation                            *)

DocGetRoute == "GET /api/projects/{id}/documentation"
DocPutRoute == "PUT /api/projects/{id}/documentation"

MaxContentText == 20000

\* the length of a text of a request body
TextLength(s) == IF s = "LONG" THEN MaxContentText + 1 ELSE 5

\* what the datastore answers a query on project_documentation
TableMissing ==
    [ code |-> "PGRST205",
      message |-> "could not find the table 'public.project_documentation'" ]
TableError == [code |-> "XX000", message |-> DbErrorMessage]
DocumentationFaults == {"ok", "missing", "error"}

\* a test that recognises no error as that of a missing table
isNeverTableMissing(error) == FALSE

\* normalizedMessage.includes(...) over the messages the datastore sends
isTableMissing(error) ==
    \/ error.code = "PGRST116"
    \/ error.code = "PGRST101"
    \/ error.message = TableMissing.message

\* z.object({ content: z.unknown().optional(),
\*            content_text: z.string().max(20000).optional().nullable() })
documentationSchema(body) ==
    IF \/ body.content_text = Absent
       \/ body.content_text = JsonNull
       \/ (body.content_text[1] = "str" /\ TextLength(body.content_text[2]) <= MaxContentText)
    THEN [data |-> Some(body), error |-> None]
    ELSE [data |-> None, error |-> Some(PlainError("ZodError: content_text"))]

\* .upsert(record, { onConflict: "project_id" })
upsertDocumentation(table, record) ==
    {r \in table : r.project_id # record.project_id} \cup {record}

DocGet(header, pid) ==
    LET auth == assertSupabaseUser(header, sessions)
        req  == [header |-> header, id |-> pid]
    IN
    IF auth.error # None
    THEN Answer(DocGetRoute, req, None, Caught(auth.error[1]), auth.calls, <<>>)
    ELSE \E failAt \in 0..2 :
        LET access == ensureAccess(pid, auth.user[1], failAt)
            calls1 == auth.calls \o access.calls
            calls2 == calls1 \o <<"db.project_documentation">>
        IN
        IF access.error # None
        THEN Answer(DocGetRoute, req, auth.user, Caught(access.error[1]), calls1, <<>>)
        ELSE IF access.project = None
        THEN Answer(DocGetRoute, req, auth.user, Failure(404, "Project not found"),
                    calls1, <<>>)
        ELSE \E fault \in DocumentationFaults :
            LET q == maybeSingle({d \in documentation : d.project_id = pid}) IN
            IF fault = "missing" /\ isTableMissing(TableMissing)
            THEN Answer(DocGetRoute, req, auth.user,
                        [http |-> 200, body |-> standardResponse(TRUE, None, 200, None)],
                        calls2, <<>>)
            ELSE IF fault # "ok"
            THEN Answer(DocGetRoute, req, auth.user,
                        Caught(PlainError(IF fault = "missing" THEN TableMissing.message
                                          ELSE TableError.message)), calls2, <<>>)
            ELSE IF q.error # None
            THEN Answer(DocGetRoute, req, auth.user,
                        [http |-> 200, body |-> standardResponse(TRUE, None, 200, None)],
                        calls2, <<>>)
            ELSE Answer(DocGetRoute, req, auth.user,
                        [http |-> 200, body |-> standardResponse(TRUE, q.data, 200, None)],
                        calls2, <<>>)

\* the handler up to and including updateSchema.parse(await request.json())
DocPutCheck(header, pid, body) ==
    LET auth == assertSupabaseUser(header, sessions)
        req  == [header |-> header, id |-> pid, body |-> body]
    IN
    /\ UNCHANGED <<sessions, tables>>
    /\ IF auth.error # None
       THEN /\ Reply(DocPutRoute, req, None, Caught(auth.error[1]), auth.calls, <<>>)
            /\ UNCHANGED inflight
       ELSE \E failAt \in 0..2 :
        LET access  == ensureAccess(pid, auth.user[1], failAt)
            calls1  == auth.calls \o access.calls
            payload == documentationSchema(body)
            out(o)  == /\ Reply(DocPutRoute, req, auth.user, o, calls1, <<>>)
                       /\ UNCHANGED inflight
        IN
        IF access.error # None THEN out(Caught(access.error[1]))
        ELSE IF access.project = None THEN out(Failure(404, "Project not found"))
        ELSE IF ~access.isOwner
        THEN out(Failure(403, "Only project owners can update documentation"))
        ELSE IF payload.error # None THEN out(Caught(payload.error[1]))
        ELSE /\ Cardinality(inflight) < MaxInflight
             /\ inflight' = inflight \cup
                  {[ kind |-> "documentation", req |-> req, user |-> auth.user[1],
                     record |-> [ project_id |-> pid,
                                  content |-> body.content,
                                  content_text |->
                                      IF body.content_text \in {Absent, JsonNull}
                                      THEN None ELSE Some(body.content_text[2]),
                                  updated_by |-> auth.user[1] ],
                     calls |-> calls1, upstream |-> <<>> ]}
             /\ UNCHANGED resp

\* the rest of the handler: the upsert and the response
DocPutUpsert(c) ==
    LET calls == c.calls \o <<"db.project_documentation">> IN
    /\ c \in inflight
    /\ c.kind = "documentation"
    /\ inflight' = inflight \ {c}
    /\ UNCHANGED <<sessions, profiles, user_tokens, projects, project_documents, storage>>
    /\ \E fault \in DocumentationFaults :
        IF fault = "ok"
        THEN /\ documentation' = upsertDocumentation(documentation, c.record)
             /\ Reply(DocPutRoute, c.req, Some(c.user), Success(c.record), calls, <<>>)
        ELSE /\ UNCHANGED documentation
             /\ Reply(DocPutRoute, c.req, Some(c.user),
                      IF fault = "missing" /\ isTableMissing(TableMissing)
                      THEN Failure(503, "Project documentation storage is not configured. Please run the associated migration.")
                      ELSE Caught(PlainError(TableError.message)),
                      calls, <<>>)

----------------------------------------------------------------------------
(* GET and POST /api/projects/{id}/attachments                             *)

AttachmentsGetRoute == "GET /api/projects/{id}/attachments"
AttachmentsPostRoute == "POST /api/projects/{id}/attachments"

AttachmentsGet(header, pid) ==
    LET auth == assertSupabaseUser(header, sessions)
        req  == [header |-> header, id |-> pid]
    IN
    IF auth.error # None
    THEN Answer(AttachmentsGetRoute, req, None, Caught(auth.error[1]), auth.calls, <<>>)
    ELSE \E failAt \in 0..3 :
        LET access == ensureAccess(pid, auth.user[1], failAt)
            calls1 == auth.calls \o access.calls
            calls2 == calls1 \o <<"db.project_documents">>
        IN
        IF access.error # None
        THEN Answer(AttachmentsGetRoute, req, auth.user, Caught(access.error[1]), calls1, <<>>)
        ELSE IF access.project = None
        THEN Answer(AttachmentsGetRoute, req, auth.user,
                    Failure(404, "Project not found"), calls1, <<>>)
        ELSE IF Fails(failAt, 3)
        THEN Answer(AttachmentsGetRoute, req, auth.user,
                    Caught(PlainError(DbErrorMessage)), calls2, <<>>)
        ELSE Answer(AttachmentsGetRoute, req, auth.user,
                    Success({d \in project_documents : d.project_id = pid}), calls2, <<>>)

\* `${project.user_id}/${params.id}/${Date.now()}-${file.name}`
filePath(owner, pid, now, name) == <<owner, pid, now, name>>

\* the loop with the blob removed again when its row cannot be inserted
RECURSIVE uploadLoopWithRollback(_, _, _, _, _, _, _, _)
uploadLoopWithRollback(files, i, stopAt, owner, pid, now, rows, blobs) ==
    IF i > Len(files) \/ stopAt = 2 * i - 1
    THEN [ rows |-> rows, blobs |-> blobs, done |-> <<>>,
           calls |-> IF i > Len(files) THEN <<>> ELSE <<"storage">> ]
    ELSE LET path == filePath(owner, pid, now, files[i])
             row  == [ id |-> newId(rows), project_id |-> pid,
                       file_name |-> files[i], file_path |-> path ]
         IN  IF stopAt = 2 * i
             THEN [ rows |-> rows, blobs |-> blobs, done |-> <<>>,
                    calls |-> <<"storage", "db.project_documents">> ]
             ELSE LET rest == uploadLoopWithRollback(files, i + 1, stopAt, owner, pid,
                                                     now, rows \cup {row},
                                                     blobs \cup {path})
                  IN  [ rows |-> rest.rows, blobs |-> rest.blobs,
                        done |-> <<row>> \o rest.done,
                        calls |-> <<"storage", "db.project_documents">> \o rest.calls ]

\* The loop over the files. Step 2i-1 uploads file i, step 2i inserts its
\* row; stopAt is the step that fails, 0 when none does.
\* [rows, blobs, calls, done]: the tables after the loop, the calls made,
\* and the rows inserted
RECURSIVE uploadLoop(_, _, _, _, _, _, _, _)
uploadLoop(files, i, stopAt, owner, pid, now, rows, blobs) ==
    IF i > Len(files) \/ stopAt = 2 * i - 1
    THEN [ rows |-> rows, blobs |-> blobs, done |-> <<>>,
           calls |-> IF i > Len(files) THEN <<>> ELSE <<"storage">> ]
    ELSE LET path   == filePath(owner, pid, now, files[i])
             blobs1 == blobs \cup {path}
             row    == [ id |-> newId(rows), project_id |-> pid,
                         file_name |-> files[i], file_path |-> path ]
         IN  IF stopAt = 2 * i
             THEN [ rows |-> rows, blobs |-> blobs1, done |-> <<>>,
                    calls |-> <<"storage", "db.project_documents">> ]
             ELSE LET rest == uploadLoop(files, i + 1, stopAt, owner, pid, now,
                                         rows \cup {row}, blobs1)
                  IN  [ rows |-> rest.rows, blobs |-> rest.blobs,
                        done |-> <<row>> \o rest.done,
                        calls |-> <<"storage", "db.project_documents">> \o rest.calls ]

MaxDocuments == 2

AttachmentsPost(header, pid, files, now) ==
    LET auth == assertSupabaseUser(header, sessions)
        req  == [header |-> header, id |-> pid, files |-> files]
    IN
    /\ UNCHANGED <<sessions, profiles, user_tokens, projects, documentation, inflight>>
    /\ IF auth.error # None
       THEN /\ Reply(AttachmentsPostRoute, req, None, Caught(auth.error[1]), auth.calls, <<>>)
            /\ UNCHANGED <<project_documents, storage>>
       ELSE \E failAt \in 0..2 :
        LET access == ensureAccess(pid, auth.user[1], failAt)
            calls1 == auth.calls \o access.calls
            out(o) == /\ Reply(AttachmentsPostRoute, req, auth.user, o, calls1, <<>>)
                      /\ UNCHANGED <<project_documents, storage>>
        IN
        IF access.error # None THEN out(Caught(access.error[1]))
        ELSE IF access.project = None THEN out(Failure(404, "Project not found"))
        ELSE IF Len(files) = 0 THEN out(Failure(400, "No files provided"))
        ELSE /\ Cardinality(project_documents) + Len(files) <= MaxDocuments
             /\ \E stopAt \in 0..(2 * Len(files)) :
                LET loop == uploadLoop(files, 1, stopAt, access.project[1].user_id, pid,
                                       now, project_documents, storage)
                IN
                /\ project_documents' = loop.rows
                /\ storage' = loop.blobs
                /\ Reply(AttachmentsPostRoute, req, auth.user,
                         IF stopAt = 0 THEN Created(loop.done)
                         ELSE Caught(PlainError(DbErrorMessage)),
                         calls1 \o loop.calls, <<>>)

----------------------------------------------------------------------------
(* GET: the verified caller                                                *)

AuthUserRoute == "GET auth-user"

AuthUserGet(header) ==
    LET auth == assertSupabaseUser(header, sessions)
        req  == [header |-> header]
    IN  IF auth.error # None
        THEN Answer(AuthUserRoute, req, None, Caught(auth.error[1]), auth.calls, <<>>)
        ELSE Answer(AuthUserRoute, req, auth.user, Success([user |-> auth.user[1]]),
                    auth.calls, <<>>)

----------------------------------------------------------------------------
(* GET /api/projects: the caller's projects, or all of them by owner       *)

ProjectsListRoute == "GET /api/projects"

\* the user_id of a row whose column is NULL
NullUser == "NULL"

\* the arrangements of rows in a list
Arrangements(rows) ==
    {f \in [1..Cardinality(rows) -> rows] :
        \A i, j \in 1..Cardinality(rows) : i # j => f[i] # f[j]}

\* .order("stars", { ascending: false }): rows of equal stars in any order
orderByStars(rows) ==
    {f \in Arrangements(rows) :
        \A i, j \in 1..Cardinality(rows) : i < j => f[i].stars >= f[j].stars}

\* the expert view's query with the caller's filter applied to it as well
selectOwnProjects(table, view, userId) == {r \in table : r.user_id = userId}

\* .from("projects").select("*") for the expert view, and
\* .select(...).eq("user_id", user.id) for the caller's own
selectProjects(table, view, userId) ==
    IF view = Some("expert") THEN table ELSE {r \in table : r.user_id = userId}

\* [...new Set(projectsData.map(p => p.user_id).filter(Boolean))]
userIdsOf(rows) == {rows[i].user_id : i \in 1..Len(rows)} \ {NullUser}

\* { ...project, profiles: profilesMap.get(project.user_id) ?? null }
attachProfile(project, profilesData) ==
    LET hit == {p \in profilesData : p.id = project.user_id} IN
    [ project  |-> project,
      profiles |-> IF hit = {} THEN None ELSE Some(CHOOSE p \in hit : TRUE) ]

\* every project its own group: the reduce without its lookup of acc[ownerId]
RECURSIVE groupEach(_)
groupEach(list) ==
    IF list = <<>> THEN <<>>
    ELSE <<[ owner_id |-> IF Head(list).project.user_id = NullUser THEN "unknown"
                          ELSE Head(list).project.user_id,
             owner    |-> Head(list).profiles,
             projects |-> <<Head(list)>> ]>> \o groupEach(Tail(list))

\* Object.values(projects.reduce((acc, project) => { ... }, {}))
RECURSIVE groupByOwner(_)
groupByOwner(list) ==
    IF list = <<>> THEN <<>>
    ELSE LET acc     == groupByOwner(SubSeq(list, 1, Len(list) - 1))
             project == list[Len(list)]
             ownerId == IF project.project.user_id = NullUser THEN "unknown"
                        ELSE project.project.user_id
         IN  IF \E g \in 1..Len(acc) : acc[g].owner_id = ownerId
             THEN [g \in 1..Len(acc) |->
                      IF acc[g].owner_id = ownerId
                      THEN [acc[g] EXCEPT !.projects = Append(@, project)]
                      ELSE acc[g]]
             ELSE Append(acc, [ owner_id |-> ownerId,
                                owner    |-> project.profiles,
                                projects |-> <<project>> ])

\* documents:project_documents(count)
withDocumentCount(project) ==
    [ project   |-> project,
      documents |-> Cardinality({d \in project_documents : d.project_id = project.id}) ]

ProjectsList(header, view) ==
    LET auth == assertSupabaseUser(header, sessions)
        req  == [header |-> header, view |-> view]
    IN
    IF auth.error # None
    THEN Answer(ProjectsListRoute, req, None, Caught(auth.error[1]), auth.calls, <<>>)
    ELSE \E failAt \in 0..2 :
        LET calls1 == auth.calls \o <<"db.projects">>
            calls2 == calls1 \o <<"db.profiles">>
            found  == selectProjects(projects, view, auth.user[1])
        IN
        IF Fails(failAt, 1)
        THEN Answer(ProjectsListRoute, req, auth.user,
                    Caught(PlainError(DbErrorMessage)), calls1, <<>>)
        ELSE IF view = Some("expert")
        THEN IF Fails(failAt, 2)
             THEN Answer(ProjectsListRoute, req, auth.user,
                         Caught(PlainError(DbErrorMessage)), calls2, <<>>)
             ELSE \E projectsData \in orderByStars(found) :
                    LET profilesData ==
                            {p \in profiles : p.id \in userIdsOf(projectsData)}
                        projectsWithProfiles ==
                            [i \in 1..Len(projectsData) |->
                                attachProfile(projectsData[i], profilesData)]
                    IN  Answer(ProjectsListRoute, req, auth.user,
                               Success(groupByOwner(projectsWithProfiles)), calls2, <<>>)
        ELSE /\ failAt # 2
             /\ \E data \in Arrangements(found) :
                    Answer(ProjectsListRoute, req, auth.user,
                           Success([i \in 1..Len(data) |-> withDocumentCount(data[i])]),
                           calls1, <<>>)

----------------------------------------------------------------------------
(* The dashboard page: the caller's profile, or a default one              *)

DashboardRoute == "GET /dashboard"

\* the access token of the session cookie, None without a session
Cookies == {None} \cup {Some(t) : t \in BearerTokens}

\* (await getProfileByUserId(user.id)) ?? { id: user.id, role: "developer" }
DashboardPage(cookie) ==
    LET req == [cookie |-> cookie] IN
    IF cookie = None \/ cookie[1] \notin sessions
    THEN Answer(DashboardRoute, req, None,
                [http |-> 307, body |-> [redirect |-> "/"]],
                IF cookie = None THEN <<>> ELSE <<"idp">>, <<>>)
    ELSE \E dbOk \in BOOLEAN :
        LET user == UserOfToken[cookie[1]]
            read == getProfileByUserId(user, profiles, dbOk)
        IN  IF read.error # None
            THEN Answer(DashboardRoute, req, Some(user),
                        [http |-> 500, body |-> [message |-> read.error[1].message]],
                        <<"idp", "db.profiles">>, <<>>)
            ELSE Answer(DashboardRoute, req, Some(user),
                        [http |-> 200,
                         body |-> [profile |-> Coalesce(read.data,
                                                        [id |-> user, role |-> "developer"])]],
                        <<"idp", "db.profiles">>, <<>>)

----------------------------------------------------------------------------
(* The navigation proxy and the pages that redirect                        *)

\* A pathname is the list of the pieces it is written from, so that a prefix
\* of the list is a prefix of the pathname: "/" is <<"/">>, and
\* "/api/auth/loginx" is <<"/api", "/auth", "/login", "x">>.
startsWith(pathname, prefix) ==
    /\ Len(pathname) >= Len(prefix)
    /\ SubSeq(pathname, 1, Len(prefix)) = prefix

\* the proxy with "/" left out of the public routes
proxyHomeNotPublic(pathname, user, hasHashFragment) ==
    LET isAuthCallback == pathname = <<"/auth", "/callback">>
        isAuthError    == pathname = <<"/auth", "/error">>
        isPublicRoute  == \/ pathname = <<"/callback">>
                          \/ startsWith(pathname, <<"/api", "/auth", "/login">>)
                          \/ isAuthCallback
                          \/ isAuthError
    IN  IF isAuthCallback \/ isAuthError THEN None
        ELSE IF user = None /\ ~isPublicRoute THEN Some(<<"/">>)
        ELSE IF user # None /\ pathname = <<"/">> /\ ~hasHashFragment
        THEN Some(<<"/dashboard">>)
        ELSE None

\* None: the request passes through; Some(p): NextResponse.redirect to p
proxy(pathname, user, hasHashFragment) ==
    LET isAuthCallback == pathname = <<"/auth", "/callback">>
        isAuthError    == pathname = <<"/auth", "/error">>
        isPublicRoute  == \/ pathname = <<"/">>
                          \/ pathname = <<"/callback">>
                          \/ startsWith(pathname, <<"/api", "/auth", "/login">>)
                          \/ isAuthCallback
                          \/ isAuthError
    IN  IF isAuthCallback \/ isAuthError THEN None
        ELSE IF user = None /\ ~isPublicRoute THEN Some(<<"/">>)
        ELSE IF user # None /\ pathname = <<"/">> /\ ~hasHashFragment
        THEN Some(<<"/dashboard">>)
        ELSE None

\* the redirect of the page itself: Home sends a signed-in user to the
\* dashboard, DashboardPage sends anyone else home
pageRedirect(pathname, user) ==
    IF pathname = <<"/">> /\ user # None THEN Some(<<"/dashboard">>)
    ELSE IF pathname = <<"/dashboard">> /\ user = None THEN Some(<<"/">>)
    ELSE None

\* the most redirects a browser follows
MaxHops == 3

\* A browser request for pathname with the session cookie; hops is the
\* number of redirects followed to get here. The proxy runs first, the page
\* after it when the request passes.
Navigate(cookie, pathname, hasHashFragment, hops) ==
    LET user == IF cookie # None /\ cookie[1] \in sessions
                THEN Some(UserOfToken[cookie[1]]) ELSE None
        req  == [ cookie |-> cookie, pathname |-> pathname,
                  hash |-> hasHashFragment, hops |-> hops ]
        byProxy == proxy(pathname, user, hasHashFragment)
        byPage  == pageRedirect(pathname, user)
    IN  Answer("navigation", req, user,
               IF byProxy # None
               THEN [http |-> 307, body |-> [location |-> byProxy, by |-> "proxy"]]
               ELSE IF byPage # None
               THEN [http |-> 307, body |-> [location |-> byPage, by |-> "page"]]
               ELSE [http |-> 200, body |-> [location |-> None, by |-> "none"]],
               <<"idp">>, <<>>)

----------------------------------------------------------------------------
(* The browser after the OAuth redirect: OAuthHandler on every page and   *)
(* CallbackPage on /callback                                               *)

\* A tab opened with a URL fragment is kept with the handlers suspended at
\* an await: pc is the await it stands at, session what
\* supabase.auth.setSession answered, request the fetch it sent, response
\* the status it was answered (0: the fetch threw), location where the
\* router was sent.
\*
\* OAuthHandler's handleOAuthTokens, from one await to the next
handleOAuthTokens(c) ==
    LET accessToken   == c.fragment.access_token
        refreshToken  == c.fragment.refresh_token
        providerToken == c.fragment.provider_token
        truthy(v)     == v # None /\ v # Some("")
        dashboard     == Some(<<"/dashboard">>)
    IN
    /\ c \in inflight
    /\ c.kind = "handoff"
    /\ c.page = "global"
    /\ UNCHANGED <<tables, resp>>
    /\ \/ /\ c.pc = "start"
          /\ UNCHANGED sessions
          /\ inflight' = (inflight \ {c}) \cup
                {[c EXCEPT !.pc = IF truthy(accessToken) /\ truthy(refreshToken)
                                  THEN "setSession" ELSE "done"]}
       \/ /\ c.pc = "setSession"
          /\ \E outcome \in IF accessToken[1] \in BearerTokens
                            THEN {"ok", "error", "throw"} ELSE {"error", "throw"} :
                /\ sessions' = IF outcome = "ok"
                               THEN sessions \cup {accessToken[1]} ELSE sessions
                /\ inflight' = (inflight \ {c}) \cup
                     { IF outcome # "ok"
                       THEN [c EXCEPT !.session = outcome, !.pc = "done"]
                       ELSE IF truthy(providerToken)
                       THEN [c EXCEPT !.session = outcome, !.pc = "fetch",
                                      !.request = Some([ header |-> <<"Bearer", accessToken[1]>>,
                                                         body |-> [provider_token |-> providerToken] ])]
                       ELSE [c EXCEPT !.session = outcome, !.pc = "done",
                                      !.location = dashboard] }
       \/ /\ c.pc = "fetch"
          /\ UNCHANGED sessions
          /\ \E status \in {0} \cup IF resp.route = StoreRoute THEN {resp.http} ELSE {} :
                inflight' = (inflight \ {c}) \cup
                    {[c EXCEPT !.response = Some(status), !.pc = "done",
                               !.location = dashboard]}

\* CallbackPage's storeTokens, from one await to the next
storeTokens(c) ==
    LET accessToken   == c.fragment.access_token
        refreshToken  == c.fragment.refresh_token
        providerToken == IF c.fragment.provider_token # None
                         THEN c.fragment.provider_token
                         ELSE c.fragment.provider_access_token
        truthy(v)     == v # None /\ v # Some("")
    IN
    /\ c \in inflight
    /\ c.kind = "handoff"
    /\ c.page = "callback"
    /\ UNCHANGED <<tables, resp>>
    /\ \/ /\ c.pc = "start"
          /\ UNCHANGED sessions
          /\ inflight' = (inflight \ {c}) \cup
                {[c EXCEPT !.pc = IF truthy(accessToken) /\ truthy(refreshToken)
                                     /\ truthy(providerToken)
                                  THEN "setSession" ELSE "done"]}
       \/ /\ c.pc = "setSession"
          /\ \E outcome \in IF accessToken[1] \in BearerTokens
                            THEN {"ok", "error", "throw"} ELSE {"error", "throw"} :
                /\ sessions' = IF outcome = "ok"
                               THEN sessions \cup {accessToken[1]} ELSE sessions
                /\ inflight' = (inflight \ {c}) \cup
                     { IF outcome = "throw"
                       THEN [c EXCEPT !.session = outcome, !.pc = "done"]
                       ELSE [c EXCEPT !.session = outcome, !.pc = "fetch",
                                      !.request = Some([ header |-> <<"Bearer", accessToken[1]>>,
                                                         body |-> [provider_token |-> providerToken] ])] }
       \/ /\ c.pc = "fetch"
          /\ UNCHANGED sessions
          /\ \E status \in {0} \cup IF resp.route = StoreRoute THEN {resp.http} ELSE {} :
                inflight' = (inflight \ {c}) \cup
                    {[c EXCEPT !.response = Some(status), !.pc = "done",
                               !.location = IF status \in 200..299
                                            THEN Some(<<"/dashboard">>) ELSE None]}

\* the request a tab sent reaches the token-storage handler, once
fetch(c) ==
    /\ c \in inflight
    /\ c.kind = "handoff"
    /\ c.pc = "fetch"
    /\ resp.route # StoreRoute
    /\ ~\E s \in inflight : s.kind = "store"
    /\ StoreTokenFetch(c.request[1].header, c.request[1].body)

----------------------------------------------------------------------------
(* The documentation sheet: ProjectDocumentationSheet and its editor       *)

\* a TipTap document is d0 (emptyDocument), d1 or d2; the request and the
\* table hold it as a JSON object
normalizeContent(raw) ==
    LET emptyDocument == "d0" IN
    IF raw = None \/ raw = Absent \/ raw = JsonNull THEN emptyDocument
    ELSE IF raw[1] = "obj" THEN raw[2]
    ELSE emptyDocument

\* The sheet a user opened on a project, kept with the handlers suspended
\* at an await. query and data are documentationQuery's, outstanding the
\* payloads of the mutations that have not settled, editor the document
\* the editor shows; lastEdit, sent and saved record the last payload
\* handed to handleContentChange, the payloads handed to saveDocumentation
\* and the last payload a mutation saved.
\*
\* One step of the sheet: the query settles and the hydrate effect runs;
\* the editor's onUpdate; the autosave timer fires; the mutation settles.
ProjectDocumentationSheet(c) ==
    LET canEdit == c.user = c.project.user_id
        isSavingDocumentation == c.outstanding # <<>>
        \* the hydrate effect, and the editor's effect on its content prop
        hydrated(s, data) ==
            LET json == normalizeContent(IF data = None THEN None ELSE data[1].content)
                text == IF data = None THEN ""
                        ELSE Coalesce(data[1].content_text, "")
            IN  [s EXCEPT !.data = data,
                          !.draft = Some([json |-> json, text |-> text]),
                          !.hasLocalChanges = FALSE,
                          !.pendingPayload = None,
                          !.editor = json,
                          !.skipFirstUpdate = (s.editor # json) \/ s.skipFirstUpdate]
        becomes(s) == inflight' = (inflight \ {c}) \cup {s}
    IN
    /\ c \in inflight
    /\ c.kind = "sheet"
    /\ UNCHANGED <<sessions, tables, resp>>
    /\ \/ /\ c.query = "loading"
          /\ resp.route = DocGetRoute
          /\ becomes(IF resp.body.success
                     THEN hydrated([c EXCEPT !.query = "success"], resp.body.data)
                     ELSE [c EXCEPT !.query = "error"])
       \/ /\ c.query = "success"
          /\ \E doc \in {"d1", "d2"} \ {c.editor} :
                LET payload == [json |-> doc, text |-> doc] IN
                becomes(IF c.skipFirstUpdate
                        THEN [c EXCEPT !.editor = doc, !.skipFirstUpdate = FALSE]
                        ELSE IF ~canEdit
                        THEN [c EXCEPT !.editor = doc]
                        ELSE [c EXCEPT !.editor = doc,
                                       !.draft = Some(payload),
                                       !.hasLocalChanges = TRUE,
                                       !.pendingPayload = Some(payload),
                                       !.lastEdit = Some(payload)])
       \/ /\ canEdit
          /\ c.hasLocalChanges
          /\ c.pendingPayload # None
          /\ ~isSavingDocumentation
          /\ becomes([c EXCEPT !.outstanding = Append(@, c.pendingPayload[1]),
                               !.pendingPayload = None,
                               !.sent = @ \cup {c.pendingPayload[1]}])
       \/ /\ isSavingDocumentation
          /\ \E ok \in {FALSE} \cup
                       IF /\ resp.route = DocPutRoute
                          /\ resp.req.body.content = <<"obj", Head(c.outstanding).json>>
                       THEN {resp.body.success} ELSE {} :
                becomes(IF ok
                        THEN hydrated([c EXCEPT !.outstanding = Tail(@),
                                                !.saved = Some(Head(c.outstanding))],
                                      resp.body.data)
                        ELSE [c EXCEPT !.outstanding = Tail(@),
                                       !.pendingPayload = None])

\* useAuthorizedFetch: the sheet's GET and PUT reach the handlers
authorizedFetch(c) ==
    LET header == <<"Bearer", c.token>> IN
    /\ c \in inflight
    /\ c.kind = "sheet"
    /\ ~\E s \in inflight : s.kind = "documentation"
    /\ \/ /\ c.query = "loading"
          /\ resp.route # DocGetRoute
          /\ DocGet(header, c.project.id)
       \/ /\ c.outstanding # <<>>
          /\ LET payload == Head(c.outstanding)
                 body    == [ content |-> <<"obj", payload.json>>,
                              content_text |-> JsonString(payload.text) ]
             IN  /\ ~(resp.route = DocPutRoute /\ resp.req.body = body)
                 /\ DocPutCheck(header, c.project.id, body)

----------------------------------------------------------------------------
(* Specifications                                                          *)
(*                                                                         *)
(* Spec is the whole API layer with the proxy and the browser's pages. The *)
(* other specifications are slices of it: each starts in states Spec       *)
(* reaches and lets a group of handlers run that share tables.             *)

BothSignedIn == sessions = BearerTokens

EmptyTables ==
    /\ user_tokens = {}
    /\ projects = {}
    /\ documentation = {}
    /\ project_documents = {}
    /\ storage = {}

\* the token vault and the handlers that read it
InitVault ==
    /\ BothSignedIn
    /\ profiles = {}
    /\ EmptyTables
    /\ inflight = {}
    /\ resp = NoResponse

NextVault ==
    \/ \E h \in Headers, b \in StoreBodies : StoreTokenFetch(h, b)
    \/ \E c \in inflight : StoreTokenUpsert(c)
    \/ \E h \in Headers : GithubUserGet(h)

SpecVault == InitVault /\ [][NextVault]_vars

\* a stored token, as a successful POST /api/auth/store-github-token leaves it
Linked(u, g) == [user_id |-> u, github_token |-> g, username |-> GithubLogin]

\* the handlers that read GitHub, for users some of whom have linked GitHub
InitGithub ==
    /\ BothSignedIn
    /\ profiles = {}
    /\ \E linked \in SUBSET Users : user_tokens = {Linked(u, "g1") : u \in linked}
    /\ projects = {}
    /\ documentation = {}
    /\ project_documents = {}
    /\ storage = {}
    /\ inflight = {}
    /\ resp = NoResponse

NextGithub ==
    \/ \E h \in Headers : GithubUserGet(h)
    \/ \E h \in Headers, n \in {None, Some(<<"a", "/", "a">>)} : GithubReposGet(h, n)
    \/ \E h \in Headers : GithubActivityGet(h)
    \/ \E h \in Headers : GithubContributionsGet(h)
    \/ \E h \in Headers : ProfileRepoGet(h)
    \/ \E h \in Headers, b \in ImportBodies :
            ProjectsImport(h, b, GithubRepoOk({101}, {0}) \cup GithubErrors)

SpecGithub == InitGithub /\ [][NextGithub]_vars

\* imports, by users some of whom have linked GitHub
InitImport ==
    /\ BothSignedIn
    /\ profiles = {}
    /\ \E linked \in {{"uA"}, Users} : user_tokens = {Linked(u, "g1") : u \in linked}
    /\ projects = {}
    /\ documentation = {}
    /\ project_documents = {}
    /\ storage = {}
    /\ inflight = {}
    /\ resp = NoResponse

NextImport ==
    \E h \in Headers, b \in ImportBodies : ProjectsImport(h, b, GithubRepoResponses)

SpecImport == InitImport /\ [][NextImport]_vars

\* the documentation of a project that users import, as owner, expert or neither
InitDocs ==
    /\ BothSignedIn
    /\ \E withProfile \in SUBSET Users :
            profiles = {[id |-> u, role |-> "developer"] : u \in withProfile}
    /\ user_tokens = {Linked(u, "g1") : u \in Users}
    /\ projects = {}
    /\ documentation = {}
    /\ project_documents = {}
    /\ storage = {}
    /\ inflight = {}
    /\ resp = NoResponse

ProjectIds == {1, 2}
OneRepository == GithubRepoOk({101}, {0})
ImportOne == [repository_full_name : {Some(n) : n \in WellFormedNames}]

DocBodies == [content : {JsonString("c1")}, content_text : {Absent, JsonString("LONG")}]

\* no header, and the two signed-in users' headers
PlainHeaders == { <<>>, <<"Bearer", "tA">>, <<"bearer", "tB">> }

NextDocs ==
    \/ \E h \in PlainHeaders, b \in ImportOne : ProjectsImport(h, b, OneRepository)
    \/ \E h \in PlainHeaders : PromoteSelf(h)
    \/ \E h \in PlainHeaders, pid \in ProjectIds : DocGet(h, pid)
    \/ \E h \in PlainHeaders, pid \in ProjectIds, b \in DocBodies : DocPutCheck(h, pid, b)
    \/ \E c \in inflight : DocPutUpsert(c)

SpecDocs == InitDocs /\ [][NextDocs]_vars

\* a project's metadata and attachments
PatchBodies ==
    [ notes : {Absent}, tags : {Absent},
      status : {Absent, JsonString("published"), JsonString("bogus")} ]

NextMeta ==
    \/ \E h \in PlainHeaders, b \in ImportOne : ProjectsImport(h, b, OneRepository)
    \/ \E u \in {None} \cup {Some(u) : u \in Users} : PromoteById(<<>>, u)
    \/ \E h \in PlainHeaders, pid \in ProjectIds : ProjectGet(h, pid)
    \/ \E h \in PlainHeaders, pid \in ProjectIds, b \in PatchBodies :
            ProjectPatch(h, pid, b, 1)

SpecMeta == InitDocs /\ [][NextMeta]_vars

\* a project's attachments
NextAttachments ==
    \/ \E h \in PlainHeaders, b \in ImportOne : ProjectsImport(h, b, OneRepository)
    \/ \E h \in PlainHeaders : PromoteSelf(h)
    \/ \E h \in PlainHeaders, pid \in ProjectIds : AttachmentsGet(h, pid)
    \/ \E h \in PlainHeaders, pid \in ProjectIds, f \in {<<>>, <<"f1">>} :
            AttachmentsPost(h, pid, f, 1)

SpecAttachments == InitDocs /\ [][NextAttachments]_vars

\* uploads to the project uA imported, by its owner, by uB before and after
\* uB has the role expert, and by a caller who is not signed in
InitUpload ==
    /\ BothSignedIn
    /\ profiles = {[id |-> u, role |-> "developer"] : u \in Users}
    /\ user_tokens = {Linked(u, "g1") : u \in Users}
    /\ projects = {}
    /\ documentation = {}
    /\ project_documents = {}
    /\ storage = {}
    /\ inflight = {}
    /\ resp = NoResponse

\* formData.getAll("files"): no file, one file, two files
FileLists == { <<>>, <<"f1">>, <<"f1", "f2">> }

NextUpload ==
    \/ \E b \in ImportOne : ProjectsImport(<<"Bearer", "tA">>, b, OneRepository)
    \/ PromoteSelf(<<"bearer", "tB">>)
    \/ \E h \in PlainHeaders, pid \in ProjectIds, f \in FileLists :
            AttachmentsPost(h, pid, f, 1)

SpecUpload == InitUpload /\ [][NextUpload]_vars

\* uA imports, edits the metadata, writes documentation and uploads a file;
\* uA and uB import the repository again, with any star count
NextReimport ==
    \/ \E h \in {<<"Bearer", "tA">>, <<"bearer", "tB">>}, b \in ImportOne :
            ProjectsImport(h, b, GithubRepoOk({101}, 0..MaxStars))
    \/ ProjectPatch(<<"Bearer", "tA">>, 1,
                    [ notes |-> JsonString("n1"), tags |-> Absent,
                      status |-> JsonString("published") ], 1)
    \/ \E b \in DocBodies : DocPutCheck(<<"Bearer", "tA">>, 1, b)
    \/ \E c \in inflight : DocPutUpsert(c)
    \/ AttachmentsPost(<<"Bearer", "tA">>, 1, <<"f1">>, 1)

SpecReimport == InitUpload /\ [][NextReimport]_vars

\* metadata patches of the project uA imported. The bodies of the PATCH:
\* each field set alone, notes set to null with tags, no field at all, and
\* a status outside the enum
NextPatch ==
    \/ \E b \in ImportOne : ProjectsImport(<<"Bearer", "tA">>, b, OneRepository)
    \/ PromoteSelf(<<"bearer", "tB">>)
    \/ \E h \in PlainHeaders, pid \in ProjectIds, now \in 1..MaxClock,
          b \in { [notes |-> JsonString("n1"), tags |-> Absent, status |-> Absent],
                  [notes |-> JsonNull, tags |-> <<"arr", "t1">>, status |-> Absent],
                  [notes |-> Absent, tags |-> Absent, status |-> JsonString("in_review")],
                  [notes |-> Absent, tags |-> Absent, status |-> Absent],
                  [notes |-> Absent, tags |-> Absent, status |-> JsonString("bogus")] } :
            ProjectPatch(h, pid, b, now)

SpecPatch == InitUpload /\ [][NextPatch]_vars

\* the dashboard page and a handler that reads the caller's profile
NextProfile ==
    \/ \E c \in Cookies : DashboardPage(c)
    \/ \E h \in PlainHeaders : PromoteSelf(h)
    \/ \E h \in PlainHeaders, b \in ImportOne : ProjectsImport(h, b, OneRepository)
    \/ \E h \in PlainHeaders, pid \in ProjectIds : AttachmentsGet(h, pid)

SpecProfile == InitDocs /\ [][NextProfile]_vars

\* sign-in, sign-out and the handlers that only read
InitAuth ==
    /\ sessions = {}
    /\ profiles = {[id |-> u, role |-> "developer"] : u \in Users}
    /\ user_tokens = {Linked(u, "g1") : u \in Users}
    /\ projects = {}
    /\ documentation = {}
    /\ project_documents = {}
    /\ storage = {}
    /\ inflight = {}
    /\ resp = NoResponse

NextAuth ==
    \/ \E t \in BearerTokens : SignIn(t)
    \/ \E t \in BearerTokens : SignOut(t)
    \/ \E h \in Headers : AuthUserGet(h)
    \/ \E h \in Headers : PromoteSelf(h)
    \/ \E h \in Headers : GithubUserGet(h)
    \/ \E h \in Headers, pid \in ProjectIds : ProjectGet(h, pid)
    \/ \E h \in Headers, pid \in ProjectIds : DocGet(h, pid)
    \/ \E h \in Headers, pid \in ProjectIds : AttachmentsGet(h, pid)

SpecAuth == InitAuth /\ [][NextAuth]_vars

\* a browser asks for a page, and follows the redirect it was answered;
\* users sign in and out
NextNav ==
    \/ \E t \in BearerTokens : SignIn(t)
    \/ \E t \in BearerTokens : SignOut(t)
    \/ \E c \in Cookies, h \in BOOLEAN,
          p \in { <<"/">>, <<"/dashboard">>, <<"/callback">>,
                   <<"/auth", "/callback">>, <<"/auth", "/error">>, <<"/auth">>,
                   <<"/api", "/auth", "/login">>,
                   <<"/api", "/auth", "/login", "/github">>,
                   <<"/api", "/auth", "/login", "x">>,
                   <<"/api", "/auth", "/store-github-token">>,
                   <<"/api", "/projects">>, <<"/projects", "/1">> } :
            Navigate(c, p, h, 0)
    \/ /\ resp.route = "navigation"
       /\ resp.body.location # None
       /\ resp.req.hops < MaxHops
       /\ Navigate(resp.req.cookie, resp.body.location[1], resp.req.hash,
                   resp.req.hops + 1)

SpecNav == InitAuth /\ [][NextNav]_vars

\* one tab opened after the OAuth redirect, and the token-storage handler
NextHandoff ==
    \/ \E page \in {"global", "callback"},
          fragment \in [ access_token : {None, Some(""), Some("tA"), Some("tZ")},
                         refresh_token : {None, Some("r1")},
                         provider_token : {None, Some("g1")},
                         provider_access_token : {None, Some("g2")} ] :
            /\ ~\E c \in inflight : c.kind = "handoff"
            /\ inflight' = inflight \cup
                  {[ kind |-> "handoff", page |-> page, fragment |-> fragment,
                     pc |-> "start", session |-> "none", request |-> None,
                     response |-> None, location |-> None ]}
            /\ UNCHANGED <<sessions, tables, resp>>
    \/ \E c \in inflight : handleOAuthTokens(c)
    \/ \E c \in inflight : storeTokens(c)
    \/ \E c \in inflight : fetch(c)
    \/ \E c \in inflight : StoreTokenUpsert(c)

SpecHandoff == Init /\ [][NextHandoff]_vars

\* uA imports a repository and uB becomes an expert; the owner or the other
\* user opens the sheet on the project
NextSheet ==
    \/ \E b \in ImportOne : ProjectsImport(<<"Bearer", "tA">>, b, OneRepository)
    \/ PromoteSelf(<<"bearer", "tB">>)
    \/ \E t \in BearerTokens, p \in projects :
        /\ ~\E c \in inflight : c.kind = "sheet"
        /\ inflight' = inflight \cup
              {[ kind |-> "sheet", user |-> UserOfToken[t], token |-> t,
                 project |-> [id |-> p.id, user_id |-> p.user_id],
                 query |-> "loading", data |-> None, draft |-> None,
                 hasLocalChanges |-> FALSE, pendingPayload |-> None,
                 outstanding |-> <<>>, editor |-> normalizeContent(None),
                 skipFirstUpdate |-> TRUE,
                 lastEdit |-> None, sent |-> {}, saved |-> None ]}
        /\ UNCHANGED <<sessions, tables, resp>>
    \/ \E c \in inflight : ProjectDocumentationSheet(c)
    \/ \E c \in inflight : authorizedFetch(c)
    \/ \E c \in inflight : DocPutUpsert(c)

SpecSheet == InitUpload /\ [][NextSheet]_vars

\* a project whose owner was removed outside the API: user_id is NULL
OrphanProject ==
    [ id |-> 1, user_id |-> NullUser, github_repo_id |-> 100,
      repository_full_name |-> <<"a", "/", "a">>, stars |-> 0,
      notes |-> ProjectDefaults.notes, tags |-> ProjectDefaults.tags,
      status |-> ProjectDefaults.status,
       updated_at |-> ProjectDefaults.updated_at ]

\* the project list, with imports by both users
InitList ==
    /\ BothSignedIn
    /\ profiles \in { {}, {[id |-> "uA", role |-> "developer"]},
                      {[id |-> "uA", role |-> "developer"],
                       [id |-> "uB", role |-> "expert"]} }
    /\ user_tokens = {Linked(u, "g1") : u \in Users}
    /\ projects \in {{}, {OrphanProject}}
    /\ documentation = {}
    /\ project_documents = {}
    /\ storage = {}
    /\ inflight = {}
    /\ resp = NoResponse

ListViews == {None, Some("expert")}

NextList ==
    \/ \E h \in PlainHeaders, b \in ImportOne :
            ProjectsImport(h, b, GithubRepoOk(RepoIds, 0..MaxStars))
    \/ \E h \in PlainHeaders, v \in ListViews : ProjectsList(h, v)

SpecList == InitList /\ [][NextList]_vars

\* the whole API layer
Next ==
    \/ \E t \in BearerTokens : SignIn(t)
    \/ \E t \in BearerTokens : SignOut(t)
    \/ \E h \in Headers, b \in StoreBodies : StoreTokenFetch(h, b)
    \/ \E c \in inflight : StoreTokenUpsert(c)
    \/ \E h \in Headers : AuthUserGet(h)
    \/ \E h \in Headers : GithubUserGet(h)
    \/ \E h \in Headers, n \in {None, Some(<<"a", "/", "a">>)} : GithubReposGet(h, n)
    \/ \E h \in Headers : GithubActivityGet(h)
    \/ \E h \in Headers : GithubContributionsGet(h)
    \/ \E h \in Headers : ProfileRepoGet(h)
    \/ \E h \in Headers, b \in ImportBodies : ProjectsImport(h, b, GithubRepoResponses)
    \/ \E h \in Headers : PromoteSelf(h)
    \/ \E h \in Headers, u \in {None} \cup {Some(u) : u \in Users} : PromoteById(h, u)
    \/ \E h \in Headers, v \in ListViews : ProjectsList(h, v)
    \/ \E h \in Headers, pid \in ProjectIds : ProjectGet(h, pid)
    \/ \E h \in Headers, pid \in ProjectIds, b \in PatchBodies, now \in 1..MaxClock :
            ProjectPatch(h, pid, b, now)
    \/ \E h \in Headers, pid \in ProjectIds : DocGet(h, pid)
    \/ \E h \in Headers, pid \in ProjectIds, b \in DocBodies : DocPutCheck(h, pid, b)
    \/ \E c \in inflight : DocPutUpsert(c)
    \/ \E h \in Headers, pid \in ProjectIds : AttachmentsGet(h, pid)
    \/ \E h \in Headers, pid \in ProjectIds, f \in {<<>>, <<"f1">>} :
            AttachmentsPost(h, pid, f, 1)
    \/ \E c \in Cookies : DashboardPage(c)
    \/ NextNav
    \/ NextHandoff
    \/ NextSheet

Spec == Init /\ [][Next]_vars

----------------------------------------------------------------------------
(* Properties                                                              *)

Range(seq) == {seq[i] : i \in 1..Len(seq)}

\* calls[i] = first and calls[j] = second for some i < j
Precedes(calls, first, second) ==
    \E i \in 1..Len(calls), j \in 1..Len(calls) :
        i < j /\ calls[i] = first /\ calls[j] = second

\* the last response answers this route
Answered(route) == resp.route = route

\* C4: an import is an upsert keyed by github_repo_id. The table never holds
\* two rows with one repository id; an import of an id that has a row leaves
\* the number of rows and their ids as they were; and after a successful
\* import the row of that id carries the caller, the submitted name and the
\* star count GitHub answered last, and it is the row the response returns.
ImportUpsertsByRepoId ==
    /\ [](\A r1, r2 \in projects : r1.github_repo_id = r2.github_repo_id => r1 = r2)
    /\ [](Answered(ImportRoute) /\ resp.body.success =>
            \E r \in projects :
                /\ r.github_repo_id = resp.upstream[1].json[1].id
                /\ r.stars = Coalesce(resp.upstream[1].json[1].stargazers_count, 0)
                /\ r.repository_full_name = resp.req.body.repository_full_name[1]
                /\ r.user_id = resp.user[1]
                /\ resp.body.data = Some(r))
    /\ [][ (/\ resp'.route = ImportRoute
            /\ resp'.body.success
            /\ \E r \in projects : r.github_repo_id = resp'.upstream[1].json[1].id)
           => /\ Cardinality(projects') = Cardinality(projects)
              /\ {r.id : r \in projects'} = {r.id : r \in projects} ]_vars

\* uB imported the repository of row 1 again, with another star count, while
\* the table holds a second row
ReimportedRepository ==
    /\ Answered(ImportRoute)
    /\ resp.body.success
    /\ resp.user = Some("uB")
    /\ resp.body.data[1].id = 1
    /\ resp.body.data[1].stars = 1
    /\ Cardinality(projects) = 2

\* C5: when GitHub rejects the submitted token, the store request is answered
\* with the failure envelope and never reaches user_tokens: the profile fetch
\* comes before the upsert, an upsert is only ever pending behind a fetch
\* that succeeded, and the failing request leaves the table as it was.
FailedProfileFetchStoresNothing ==
    /\ [](Answered(StoreRoute) /\ resp.upstream # <<>> /\ ~resp.upstream[1].ok =>
            /\ ~resp.body.success
            /\ resp.body.data = None
            /\ resp.body.error # None
            /\ resp.http >= 400
            /\ "db.user_tokens" \notin Range(resp.calls))
    /\ [](Answered(StoreRoute) /\ "db.user_tokens" \in Range(resp.calls) =>
            /\ Precedes(resp.calls, "github", "db.user_tokens")
            /\ ~Precedes(resp.calls, "db.user_tokens", "github"))
    /\ [](\A c \in inflight : c.kind = "store" => c.upstream[1].ok)
    /\ [][ (/\ resp' # resp
            /\ resp'.route = StoreRoute
            /\ resp'.upstream # <<>>
            /\ ~resp'.upstream[1].ok)
           => user_tokens' = user_tokens ]_vars

\* uA, who has a stored token g1, submitted g2 and GitHub rejected it
RejectedTokenWithRowPresent ==
    /\ Answered(StoreRoute)
    /\ resp.user = Some("uA")
    /\ resp.req.body.provider_token = Some("g2")
    /\ resp.upstream # <<>>
    /\ ~resp.upstream[1].ok
    /\ \E r \in user_tokens : r.user_id = "uA" /\ r.github_token = "g1"

RECURSIVE segments(_)
segments(name) ==
    IF Slash \notin Range(name) THEN <<name>>
    ELSE LET i == CHOOSE k \in 1..Len(name) :
                    name[k] = Slash /\ \A j \in 1..(k - 1) : name[j] # Slash
         IN  <<SubSeq(name, 1, i - 1)>> \o segments(SubSeq(name, i + 1, Len(name)))

\* exactly two non-empty slash-free segments
IsOwnerSlashRepo(name) ==
    /\ name # None
    /\ Len(segments(name[1])) = 2
    /\ segments(name[1])[1] # <<>>
    /\ segments(name[1])[2] # <<>>

\* C8: an import whose repository_full_name is not two non-empty slash-free
\* segments is answered with a failure before the vault is read and before
\* GitHub is called, and it changes no row of any table.
MalformedNameIsRejectedFirst ==
    /\ [](Answered(ImportRoute) /\ ~IsOwnerSlashRepo(resp.req.body.repository_full_name) =>
            /\ ~resp.body.success
            /\ Range(resp.calls) \cap {"db.user_tokens", "github", "db.projects"} = {})
    /\ [](Answered(ImportRoute) /\ IsOwnerSlashRepo(resp.req.body.repository_full_name)
            /\ resp.user # None =>
            "db.user_tokens" \in Range(resp.calls))
    /\ [][ (/\ resp'.route = ImportRoute
            /\ ~IsOwnerSlashRepo(resp'.req.body.repository_full_name))
           => tables' = tables ]_vars

\* uA, whose token is stored, submitted a name of three segments while the
\* table holds a project
ThreeSegmentNameRejected ==
    /\ Answered(ImportRoute)
    /\ resp.user = Some("uA")
    /\ resp.req.body.repository_full_name = Some(<<"a", "/", "a", "/", "a">>)
    /\ ~resp.body.success
    /\ \E r \in user_tokens : r.user_id = "uA"
    /\ projects # {}

\* the caller of response r is signed in, and no datastore query failed for r
Served(r) == r.user # None /\ r.body.error # Some(DbErrorMessage)

ProjectScopedRoutes ==
    { ProjectGetRoute, ProjectPatchRoute, DocGetRoute, DocPutRoute,
      AttachmentsGetRoute, AttachmentsPostRoute }

\* project pid exists and user neither owns it nor has the role expert
Outsider(user, pid) ==
    /\ \E r \in projects : r.id = pid /\ r.user_id # user
    /\ ~\E p \in profiles : p.id = user /\ p.role = "expert"

\* C1: on every project-scoped route, a signed-in caller who neither owns the
\* existing project nor has the role expert is answered 403 with no data,
\* and the request changes no table.
OutsiderIsRefused ==
    [][ (/\ resp' # resp
         /\ resp'.route \in ProjectScopedRoutes
         /\ Served(resp')
         /\ Outsider(resp'.user[1], resp'.req.id))
        => /\ resp'.http = 403
           /\ ~resp'.body.success
           /\ resp'.body.data = None
           /\ tables' = tables ]_vars

\* project pid exists, user does not own it and has the role expert
ExpertVisitor(user, pid) ==
    /\ \E r \in projects : r.id = pid /\ r.user_id # user
    /\ \E p \in profiles : p.id = user /\ p.role = "expert"

\* C2: an expert who does not own the project is answered 403 on a
\* documentation PUT, which leaves the row as it was, and 200 on the GET;
\* and whenever a documentation row is created or changed, its updated_by
\* is the user who owns the project at that moment.
DocumentationAsymmetry ==
    [][ /\ (/\ resp' # resp
            /\ resp'.route = DocPutRoute
            /\ Served(resp')
            /\ ExpertVisitor(resp'.user[1], resp'.req.id))
           => resp'.http = 403 /\ documentation' = documentation
        /\ (/\ resp' # resp
            /\ resp'.route = DocGetRoute
            /\ Served(resp')
            /\ ExpertVisitor(resp'.user[1], resp'.req.id))
           => resp'.http = 200 /\ resp'.body.success
        /\ \A d \in documentation' \ documentation :
              \E r \in projects : r.id = d.project_id /\ r.user_id = d.updated_by ]_vars

\* every route whose handler verifies the caller
ProtectedRoutes ==
    { StoreRoute, AuthUserRoute, GithubUserRoute, GithubReposRoute, GithubActivityRoute,
      GithubContributionsRoute, ProfileRepoRoute, ImportRoute, PromoteSelfRoute,
      ProjectGetRoute, ProjectPatchRoute, DocGetRoute, DocPutRoute,
      AttachmentsGetRoute, AttachmentsPostRoute }

\* no header, another scheme than Bearer, no token, an empty token, or a
\* token the identity provider does not accept
LacksAcceptedToken(header, accepted) ==
    \/ Len(header) < 2
    \/ header[1] \notin {"Bearer", "bearer"}
    \/ header[2] = ""
    \/ header[2] \notin accepted

\* C3: a request to a protected route without a token the identity provider
\* accepts at that moment is answered 401 with success false, and nothing but
\* the identity provider is called for it.
UnverifiedCallerGets401 ==
    [][ (/\ resp' # resp
         /\ resp'.route \in ProtectedRoutes
         /\ LacksAcceptedToken(resp'.req.header, sessions))
        => /\ resp'.http = 401
           /\ ~resp'.body.success
           /\ Range(resp'.calls) \subseteq {"idp"}
           /\ tables' = tables ]_vars

GithubTokenRoutes ==
    { GithubUserRoute, GithubReposRoute, GithubActivityRoute, GithubContributionsRoute,
      ProfileRepoRoute, ImportRoute }

\* the status and status_code of a failure that carries no status of its own
GenericFailure == Caught(PlainError(DbErrorMessage))

\* C7: on every route that needs the caller's GitHub token, a signed-in
\* caller without a stored token is answered with a failure that is not 401
\* and whose status differs from the one generic upstream and datastore
\* failures get, and GitHub is not called.
NotLinkedIsDistinct ==
    [][ (/\ resp' # resp
         /\ resp'.route \in GithubTokenRoutes
         /\ Served(resp')
         /\ resp'.route = ImportRoute =>
                IsOwnerSlashRepo(resp'.req.body.repository_full_name)
         /\ ~\E r \in user_tokens : r.user_id = resp'.user[1] /\ r.github_token # "")
        => /\ ~resp'.body.success
           /\ resp'.http # 401
           /\ "github" \notin Range(resp'.calls)
           /\ resp'.http # GenericFailure.http
           /\ resp'.body.status_code # GenericFailure.body.status_code ]_vars

\* the body of response r fails the schema of its route
FailsSchema(r) ==
    \/ /\ r.route = ImportRoute
       /\ ~IsOwnerSlashRepo(r.req.body.repository_full_name)
    \/ /\ r.route = StoreRoute
       /\ r.req.body.provider_token \in {None, Some("")}
    \/ /\ r.route = ProjectPatchRoute
       /\ r.req.body.status # Absent
       /\ r.req.body.status \notin {JsonString(v) : v \in StatusValues}
    \/ /\ r.route = DocPutRoute
       /\ r.req.body.content_text \notin {Absent, JsonNull}
       /\ TextLength(r.req.body.content_text[2]) > MaxContentText
       /\ \E p \in projects : p.id = r.req.id /\ p.user_id = r.user[1]

\* C9: a request body that fails its route's schema is answered with the
\* failure envelope and status 400.
ValidationFailureIs400 ==
    [][ (resp' # resp /\ Served(resp') /\ FailsSchema(resp'))
        => /\ ~resp'.body.success
           /\ resp'.http = 400
           /\ resp'.body.status_code = Some(400) ]_vars

\* C10: when GitHub answers an import's repository fetch with a non-2xx
\* response, the failure carries GitHub's status and body text, and GitHub
\* was called once.
UpstreamFailureCarriesStatus ==
    [](Answered(ImportRoute) /\ resp.upstream # <<>> /\ ~resp.upstream[1].ok =>
        /\ ~resp.body.success
        /\ resp.http = resp.upstream[1].status
        /\ resp.body.status_code = Some(resp.upstream[1].status)
        /\ resp.upstream[1].text # "" => resp.body.error = Some(resp.upstream[1].text)
        /\ Len(resp.upstream) = 1
        /\ Cardinality({i \in 1..Len(resp.calls) : resp.calls[i] = "github"}) = 1)

\* C11: every response is the envelope: a success carries no error, a
\* failure carries no data and a non-empty error, and status_code is the
\* HTTP status of the response.
EnvelopeIsUniform ==
    resp.route # "none" =>
        /\ resp.body.success => resp.body.error = None
        /\ ~resp.body.success =>
                /\ resp.body.data = None
                /\ resp.body.error # None
                /\ resp.body.error # Some("")
        /\ resp.body.status_code = Some(resp.http)

\* the number of days in the weeks before week w
RECURSIVE DaysBefore(_, _)
DaysBefore(weeks, w) ==
    IF w <= 1 THEN 0 ELSE DaysBefore(weeks, w - 1) + Len(weeks[w - 1])

\* C12: the contributions list is the calendar's days in week-then-day
\* order, each with its date and count: for N weeks of 7 days it has 7 * N
\* entries and entry 7 * w + d is day d of week w (both counted from 0);
\* a missing calendar gives the empty list and total_contributions 0.
ContributionsAreFlattened ==
    Answered(GithubContributionsRoute) /\ resp.body.success =>
        LET calendar == resp.upstream[1].json[1].calendar
            out      == resp.body.data[1].contributions
            total    == resp.body.data[1].total_contributions
        IN  IF calendar = None
            THEN out = <<>> /\ total = 0
            ELSE LET weeks == calendar[1].weeks
                     N     == Len(weeks)
                 IN  /\ total = calendar[1].totalContributions
                     /\ Len(out) = DaysBefore(weeks, N + 1)
                     /\ \A w \in 1..N : \A d \in 1..Len(weeks[w]) :
                            out[DaysBefore(weeks, w) + d]
                                = [date  |-> weeks[w][d].date,
                                   count |-> weeks[w][d].contributionCount]
                     /\ (\A w \in 1..N : Len(weeks[w]) = 7) =>
                            /\ Len(out) = 7 * N
                            /\ \A w \in 0..(N - 1) : \A d \in 0..6 :
                                  out[7 * w + d + 1]
                                      = [date  |-> weeks[w + 1][d + 1].date,
                                         count |-> weeks[w + 1][d + 1].contributionCount]

\* a calendar of two full weeks was flattened: entry 7 (from 0) is the
\* first day of the second week
TwoWeeksFlattened ==
    /\ Answered(GithubContributionsRoute)
    /\ resp.body.success
    /\ resp.upstream[1].json[1].calendar # None
    /\ resp.upstream[1].json[1].calendar[1].weeks = <<Week("w2", 7, 1), Week("w1", 7, 0)>>
    /\ Len(resp.body.data[1].contributions) = 14
    /\ resp.body.data[1].contributions[8] = [date |-> <<"w1", 1>>, count |-> 1]

\* C13: an import with a well-formed name by a signed-in caller who has a
\* stored token, answered by GitHub with the repository and not failed by
\* the datastore, returns 201 with success true and the row whose
\* github_repo_id is the upstream repository's id and whose user_id is the
\* caller.
ImportReturnsCreatedRow ==
    [][ (/\ resp'.route = ImportRoute
         /\ Served(resp')
         /\ IsOwnerSlashRepo(resp'.req.body.repository_full_name)
         /\ \E r \in user_tokens : r.user_id = resp'.user[1] /\ r.github_token # ""
         /\ resp'.upstream # <<>> => resp'.upstream[1].ok)
        => /\ resp'.http = 201
           /\ resp'.body.status_code = Some(201)
           /\ resp'.body.success
           /\ Len(resp'.upstream) = 1
           /\ resp'.body.data # None
           /\ resp'.body.data[1].github_repo_id = resp'.upstream[1].json[1].id
           /\ resp'.body.data[1].user_id = resp'.user[1]
           /\ resp'.body.data[1] \in projects' ]_vars

\* uB imported repository 102 while uA owns another project; then uB
\* imported uA's repository 101 and got it back as their own
ImportedAnotherUsersRepository ==
    /\ Answered(ImportRoute)
    /\ resp.http = 201
    /\ resp.user = Some("uB")
    /\ resp.body.data[1].github_repo_id = 101
    /\ resp.body.data[1].user_id = "uB"
    /\ resp.body.data[1].id = 1
    /\ \E r \in projects : r.github_repo_id = 102

PromotionRoutes == {PromoteSelfRoute, PromoteByIdRoute}

\* nobody is signed in as user, or user's profile has the role developer
OrdinaryCaller(user) ==
    \/ user = None
    \/ \E p \in profiles : p.id = user[1] /\ p.role = "developer"

\* C14: a role changes only in a step of a role-promotion endpoint, and
\* never in a step that answers an unauthenticated caller or a signed-in
\* developer.
OnlyAdministratorsPromote ==
    [][ /\ profiles' # profiles => resp'.route \in PromotionRoutes
        /\ (resp' # resp /\ OrdinaryCaller(resp'.user)) => profiles' = profiles ]_vars

\* the projects listed in the groups of an expert view
ListedInGroups(groups) ==
    UNION {{groups[g].projects[i].project : i \in 1..Len(groups[g].projects)} :
                g \in 1..Len(groups)}

\* C15: the expert view of the project list asks for no role: every
\* signed-in caller, whatever their profile, is answered 200 with the
\* projects of all users in groups by owner.
ExpertViewNeedsNoRole ==
    [][ (/\ resp'.route = ProjectsListRoute
         /\ resp'.req.view = Some("expert")
         /\ Served(resp'))
        => /\ resp'.http = 200
           /\ resp'.body.success
           /\ resp'.body.data # None
           /\ ListedInGroups(resp'.body.data[1]) = projects
           /\ \A g \in 1..Len(resp'.body.data[1]) :
                \A i \in 1..Len(resp'.body.data[1][g].projects) :
                    resp'.body.data[1][g].projects[i].project.user_id \in
                        {resp'.body.data[1][g].owner_id, NullUser} ]_vars

\* uA, who has no profile row, was given the expert view with uB's project
ExpertViewForCallerWithoutProfile ==
    /\ Answered(ProjectsListRoute)
    /\ resp.req.view = Some("expert")
    /\ resp.user = Some("uA")
    /\ resp.http = 200
    /\ ~\E p \in profiles : p.id = "uA"
    /\ \E r \in ListedInGroups(resp.body.data[1]) : r.user_id = "uB"

\* the places of project r in the groups of an expert view
PlacesInGroups(groups, r) ==
    UNION {{<<g, i>> : i \in {j \in 1..Len(groups[g].projects) :
                                    groups[g].projects[j].project = r}} :
                g \in 1..Len(groups)}

\* C16: without view=expert the list holds exactly the caller's rows, each
\* once. With view=expert every project is in exactly one group, once; the
\* projects of a group have the group's owner_id as user_id, or no user_id
\* in the group 'unknown'; no two groups have the same owner_id; and a
\* group's owner is the profile row of that id, or null when there is none.
ListShowsOwnOrGroupsAll ==
    [][ (resp'.route = ProjectsListRoute /\ Served(resp')) =>
          /\ resp'.body.success
          /\ IF resp'.req.view # Some("expert")
             THEN LET data == resp'.body.data[1] IN
                  /\ {data[i].project : i \in 1..Len(data)}
                        = {r \in projects : r.user_id = resp'.user[1]}
                  /\ Len(data) = Cardinality({r \in projects : r.user_id = resp'.user[1]})
             ELSE LET groups == resp'.body.data[1] IN
                  /\ ListedInGroups(groups) = projects
                  /\ \A r \in projects : Cardinality(PlacesInGroups(groups, r)) = 1
                  /\ \A g \in 1..Len(groups) :
                        /\ groups[g].projects # <<>>
                        /\ \A i \in 1..Len(groups[g].projects) :
                              LET owner == groups[g].projects[i].project.user_id IN
                              groups[g].owner_id =
                                  IF owner = NullUser THEN "unknown" ELSE owner
                        /\ groups[g].owner =
                              IF \E p \in profiles : p.id = groups[g].owner_id
                              THEN Some(CHOOSE p \in profiles : p.id = groups[g].owner_id)
                              ELSE None
                  /\ \A g, h \in 1..Len(groups) :
                        g # h => groups[g].owner_id # groups[h].owner_id ]_vars

\* uB was given the expert view of three projects in three groups: uA's,
\* with uA's profile row; uB's own; and the group 'unknown'
ThreeGroupsListed ==
    /\ Answered(ProjectsListRoute)
    /\ resp.req.view = Some("expert")
    /\ resp.body.success
    /\ Len(resp.body.data[1]) = 3
    /\ \E g \in 1..3 : resp.body.data[1][g].owner_id = "unknown"
    /\ \E g \in 1..3 : /\ resp.body.data[1][g].owner_id = "uA"
                       /\ resp.body.data[1][g].owner = Some([id |-> "uA", role |-> "developer"])
    /\ \E g \in 1..3 : resp.body.data[1][g].owner_id = "uB"

\* the number of calls to one service
Count(calls, service) == Cardinality({i \in 1..Len(calls) : calls[i] = service})

\* project pid exists and user owns it or has the role expert
Authorized(user, pid) ==
    \E r \in projects :
        /\ r.id = pid
        /\ \/ r.user_id = user
           \/ \E p \in profiles : p.id = user /\ p.role = "expert"

\* C17: no step removes or changes an attachment row or a blob, and every
\* row's path is a blob in storage. An upload request works through its files
\* in order, the upload of a file followed by the insert of its row and then
\* by the upload of the next file; it stops at the first call that fails and
\* answers with a failure, the rows of the files before and every blob
\* uploaded, that of the file whose insert failed included, stay, and no
\* later file gets a blob or a row. With all calls successful the answer is
\* 201 with the rows of all files. Without files nothing is uploaded or
\* inserted and an authorized caller is answered 400.
UploadIsSequentialWithoutRollback ==
    [][ /\ project_documents \subseteq project_documents'
        /\ storage \subseteq storage'
        /\ \A d \in project_documents' : d.file_path \in storage'
        /\ resp'.route = AttachmentsPostRoute =>
            LET files   == resp'.req.files
                pid     == resp'.req.id
                calls   == resp'.calls
                added   == project_documents' \ project_documents
                uploads == Count(calls, "storage")
                inserts == Count(calls, "db.project_documents")
                failedInsert == /\ resp'.http # 201
                                /\ inserts > 0
                                /\ calls[Len(calls)] = "db.project_documents"
                failedUpload == /\ resp'.http # 201
                                /\ uploads > 0
                                /\ calls[Len(calls)] = "storage"
                kept    == IF failedInsert THEN inserts - 1 ELSE inserts
            IN
            /\ uploads <= Len(files)
            /\ inserts <= uploads
            /\ uploads <= inserts + 1
            /\ \A i \in 1..Len(calls) :
                /\ (calls[i] = "storage" /\ i < Len(calls))
                        => calls[i + 1] = "db.project_documents"
                /\ calls[i] = "db.project_documents"
                        => (i > 1 /\ calls[i - 1] = "storage")
            /\ Cardinality(added) = kept
            /\ \A i \in 1..kept :
                \E d \in added :
                    /\ d.file_name = files[i]
                    /\ d.project_id = pid
                    /\ \A j \in 1..kept : \A e \in added :
                            (i < j /\ e.file_name = files[j]) => d.id < e.id
            /\ \A i \in 1..inserts :
                \E path \in storage' : path[2] = pid /\ path[4] = files[i]
            /\ \A path \in storage' \ storage :
                /\ path[2] = pid
                /\ \E i \in 1..inserts : path[4] = files[i]
            /\ (failedInsert \/ failedUpload)
                    => (resp'.http = 500 /\ ~resp'.body.success)
            /\ resp'.http = 201 =>
                    /\ kept = Len(files)
                    /\ Range(resp'.body.data[1]) = added
            /\ (kept < Len(files)) => ~resp'.body.success
            /\ (Len(files) = 0) =>
                    /\ uploads = 0
                    /\ storage' = storage
                    /\ project_documents' = project_documents
                    /\ (Served(resp') /\ Authorized(resp'.user[1], pid))
                            => resp'.http = 400 ]_vars

\* the insert of the second file's row failed: the first file's row and
\* both blobs are there, the second file has no row
SecondInsertFailedFirstFileKept ==
    /\ resp.route = AttachmentsPostRoute
    /\ resp.req.files = <<"f1", "f2">>
    /\ resp.http = 500
    /\ Count(resp.calls, "storage") = 2
    /\ Count(resp.calls, "db.project_documents") = 2
    /\ \E d \in project_documents : d.file_name = "f1" /\ d.project_id = resp.req.id
    /\ ~\E d \in project_documents : d.file_name = "f2"
    /\ \E path \in storage : path[2] = resp.req.id /\ path[4] = "f2"

\* C18: a documentation GET by a signed-in caller who owns the existing
\* project or has the role expert, when no datastore query fails with another
\* error, is answered 200 with success true and no error; the data are null
\* when the project has no documentation row and when the datastore answers
\* that the table is missing, and the project's row otherwise or null.
AbsentDocumentationReadsAsNull ==
    [][ (/\ resp' # resp
         /\ resp'.route = DocGetRoute
         /\ Served(resp')
         /\ Authorized(resp'.user[1], resp'.req.id))
        => LET rows == {d \in documentation : d.project_id = resp'.req.id} IN
           /\ resp'.http = 200
           /\ resp'.body.success
           /\ resp'.body.status_code = Some(200)
           /\ resp'.body.error = None
           /\ resp'.body.data \in {None} \cup {Some(d) : d \in rows}
           /\ rows = {} => resp'.body.data = None
           /\ tables' = tables ]_vars

\* the table was answered missing: the expert who does not own the project
\* reads null although the project has a documentation row
MissingTableReadAsNull ==
    /\ resp.route = DocGetRoute
    /\ resp.user # None
    /\ ExpertVisitor(resp.user[1], resp.req.id)
    /\ \E d \in documentation : d.project_id = resp.req.id
    /\ resp.http = 200
    /\ resp.body.success
    /\ resp.body.data = None

\* C19: in the profile-repo lookup a failed README fetch still gives a
\* success that carries the repository's fields with readme_content null, a
\* README that was fetched is carried in readme_content, and a failed user
\* fetch or a failed repository fetch gives a failure without data, after
\* which GitHub is not called again.
ReadmeFailureIsSwallowed ==
    (Answered(ProfileRepoRoute) /\ Len(resp.upstream) > 0) =>
        LET gh == resp.upstream IN
        /\ Count(resp.calls, "github") = Len(gh)
        /\ \A i \in 1..(Len(gh) - 1) : gh[i].ok
        /\ Len(gh) <= 2 =>
                /\ ~gh[Len(gh)].ok
                /\ ~resp.body.success
                /\ resp.body.data = None
                /\ resp.http = 500
        /\ Len(gh) = 3 =>
                /\ resp.http = 200
                /\ resp.body.success
                /\ resp.body.error = None
                /\ resp.body.data[1].stars = gh[2].json[1].stargazers_count
                /\ resp.body.data[1].readme_content =
                        IF gh[3].ok THEN Some(gh[3].json[1].content) ELSE None

\* the repository was fetched, its README was not: a success without README
ProfileRepoWithoutReadme ==
    /\ Answered(ProfileRepoRoute)
    /\ Len(resp.upstream) = 3
    /\ resp.upstream[2].ok
    /\ ~resp.upstream[3].ok
    /\ resp.body.success
    /\ resp.body.data[1].readme_content = None

\* C20: after the profile of a signed-in user has been read, by the dashboard
\* page or by the access check of a project-scoped handler, the profiles
\* table holds a row for that user, with the role developer when the user
\* had no row before.
ProfileReadCreatesRow ==
    [][ (/\ resp' # resp
         /\ resp'.user # None
         /\ \/ resp'.route = DashboardRoute /\ resp'.http = 200
            \/ resp'.route = AttachmentsGetRoute /\ Served(resp'))
        => \E p \in profiles' :
            /\ p.id = resp'.user[1]
            /\ (~\E q \in profiles : q.id = p.id) => p.role = "developer" ]_vars

\* C22: a successful activity answer holds the first min(10, n) of the n
\* events GitHub answered, in GitHub's order, each as its id, type,
\* repository name and created_at and nothing else.
ActivityIsFirstTen ==
    (Answered(GithubActivityRoute) /\ resp.body.success) =>
        LET feed    == resp.upstream[2].json[1]
            payload == resp.body.data[1]
        IN
        /\ Len(payload) = IF Len(feed) < 10 THEN Len(feed) ELSE 10
        /\ \A i \in 1..Len(payload) :
            /\ DOMAIN payload[i] = {"id", "type", "repo", "created_at"}
            /\ payload[i].id = feed[i].id
            /\ payload[i].type = feed[i].type
            /\ payload[i].created_at = feed[i].created_at
            /\ payload[i].repo = IF feed[i].repo = None THEN None
                                 ELSE Some(feed[i].repo[1].name)

\* GitHub answered eleven events and ten were returned
EleventhEventDropped ==
    /\ Answered(GithubActivityRoute)
    /\ resp.body.success
    /\ Len(resp.upstream[2].json[1]) = 11
    /\ Len(resp.body.data[1]) = 10

\* C23: a write is applied only for a caller who satisfies the access rule
\* against the project's owner in the state the write is applied to: the
\* owner for a documentation PUT, the owner or an expert for a metadata PATCH
\* and an attachment upload.
WriteAppliedForAuthorizedCaller ==
    [][ /\ (resp'.route = DocPutRoute /\ documentation' # documentation)
                => \E r \in projects :
                        r.id = resp'.req.id /\ r.user_id = resp'.user[1]
        /\ (resp'.route = ProjectPatchRoute /\ projects' # projects)
                => Authorized(resp'.user[1], resp'.req.id)
        /\ (resp'.route = AttachmentsPostRoute
                /\ <<project_documents, storage>>' # <<project_documents, storage>>)
                => Authorized(resp'.user[1], resp'.req.id) ]_vars

\* C24: a project row keeps its user_id in every step.
OwnerNeverChanges ==
    [][ \A r \in projects : \A s \in projects' :
            s.id = r.id => s.user_id = r.user_id ]_vars

\* C25: a successful import of a repository that has a project row leaves
\* the row's id, notes, tags and status and every column but user_id,
\* repository_full_name and stars as they were, and leaves every other
\* project row, the documentation rows, the attachment rows and the blobs as
\* they were.
ReimportKeepsMetadata ==
    [][ (resp'.route = ImportRoute /\ resp'.body.success) =>
            \A r \in projects :
                IF r.github_repo_id = resp'.upstream[1].json[1].id
                THEN \E s \in projects' :
                        /\ s.id = r.id
                        /\ s.github_repo_id = r.github_repo_id
                        /\ s.notes = r.notes
                        /\ s.tags = r.tags
                        /\ s.status = r.status
                        /\ \A f \in DOMAIN r \ {"user_id", "repository_full_name", "stars"} :
                                s[f] = r[f]
                        /\ Cardinality(projects') = Cardinality(projects)
                        /\ documentation' = documentation
                        /\ project_documents' = project_documents
                        /\ storage' = storage
                ELSE r \in projects' ]_vars

\* uB imported the repository of a project with edited metadata, a
\* documentation row and an attachment, which are all still there
ReimportedEditedProject ==
    /\ Answered(ImportRoute)
    /\ resp.body.success
    /\ resp.user = Some("uB")
    /\ \E r \in projects :
        /\ r.id = 1
        /\ r.user_id = "uB"
        /\ r.notes = Some("n1")
        /\ r.status = "published"
        /\ resp.body.data = Some(r)
    /\ \E d \in documentation : d.project_id = 1 /\ d.updated_by = "uA"
    /\ \E d \in project_documents : d.project_id = 1

\* C26: a successful PATCH sets each of notes, tags and status that the body
\* holds to the body's value (notes to null when the body says null), keeps
\* those the body omits, sets updated_at to the time of the request, leaves
\* every other column of the row, every other row and every other table as
\* they were, and returns the row; the body's status, when present, is one of
\* draft, in_review and published. A PATCH that does not succeed, one
\* answered 403 or 404 included, changes nothing.
PatchChangesWhatTheBodyHolds ==
    [][ resp'.route = ProjectPatchRoute =>
            LET body == resp'.req.body
                pid  == resp'.req.id
            IN
            IF resp'.body.success
            THEN /\ resp'.http = 200
                 /\ body.status = Absent \/ body.status[2] \in StatusValues
                 /\ \E r \in projects, s \in projects' :
                    /\ r.id = pid /\ s.id = pid
                    /\ Authorized(resp'.user[1], pid)
                    /\ s.notes = IF body.notes = Absent THEN r.notes
                                 ELSE IF body.notes = JsonNull THEN None
                                 ELSE Some(body.notes[2])
                    /\ s.tags = IF body.tags = Absent THEN r.tags ELSE Tail(body.tags)
                    /\ s.status = IF body.status = Absent THEN r.status
                                  ELSE body.status[2]
                    /\ s.updated_at = resp'.req.at
                    /\ \A f \in DOMAIN r \ {"notes", "tags", "status", "updated_at"} :
                            s[f] = r[f]
                    /\ projects' \ {s} = projects \ {r}
                    /\ resp'.body.data = Some(s)
                 /\ <<profiles, user_tokens, documentation, project_documents,
                      storage>>' =
                    <<profiles, user_tokens, documentation, project_documents, storage>>
            ELSE /\ tables' = tables
                 /\ resp'.http # 200 ]_vars

\* the expert uB set the notes of uA's project to null and its tags, and
\* the status set by an earlier PATCH is still there
NotesSetToNullStatusKept ==
    /\ Answered(ProjectPatchRoute)
    /\ resp.body.success
    /\ resp.user = Some("uB")
    /\ resp.req.body.notes = JsonNull
    /\ resp.req.body.status = Absent
    /\ \E r \in projects :
        /\ r.id = resp.req.id
        /\ r.user_id = "uA"
        /\ r.notes = None
        /\ r.tags = <<"t1">>
        /\ r.status = "in_review"
        /\ r.updated_at = 2

\* C27: on every project-scoped route a request without an accepted token is
\* answered 401 whether or not the project exists, and a signed-in caller's
\* request for an id no project has, when no datastore query fails, is
\* answered 404 whatever the caller's role.
ChecksRunInOrder ==
    [][ (resp' # resp /\ resp'.route \in ProjectScopedRoutes) =>
            /\ LacksAcceptedToken(resp'.req.header, sessions) => resp'.http = 401
            /\ (/\ Served(resp')
                /\ ~\E r \in projects : r.id = resp'.req.id)
                    => resp'.http = 404 ]_vars

\* C28: in every step each profile row stays and an expert's row keeps the
\* role expert; and a promotion of a user id without a profile row, when the
\* datastore does not fail, is answered with a success and leaves the
\* profiles as they were.
RolesOnlyRise ==
    [][ /\ \A p \in profiles :
            \E q \in profiles' :
                /\ q.id = p.id
                /\ p.role = "expert" => q.role = "expert"
        /\ (/\ resp'.route = PromoteByIdRoute
            /\ resp'.req.user_id # None
            /\ resp'.body.error # Some(DbErrorMessage)
            /\ ~\E p \in profiles : p.id = resp'.req.user_id[1])
                => /\ resp'.http = 200
                   /\ resp'.body.success
                   /\ profiles' = profiles ]_vars

\* uA, who has no profile row, was promoted with success while uB is an
\* expert: uA still has no row
PromotedWithoutRow ==
    /\ Answered(PromoteByIdRoute)
    /\ resp.req.user_id = Some("uA")
    /\ resp.body.success
    /\ ~\E p \in profiles : p.id = "uA"
    /\ \E p \in profiles : p.id = "uB" /\ p.role = "expert"

HandoffEstablishesSessionFirst ==
    \A c \in inflight : c.kind = "handoff" =>
        LET f == c.fragment
            providerToken == IF c.page = "callback" /\ f.provider_token = None
                             THEN f.provider_access_token ELSE f.provider_token
        IN
        /\ c.request # None =>
                /\ f.access_token \notin {None, Some("")}
                /\ f.refresh_token \notin {None, Some("")}
                /\ c.session = "ok"
                /\ c.request[1].header = <<"Bearer", f.access_token[1]>>
                /\ c.request[1].body.provider_token = providerToken
        /\ providerToken = None => c.request = None
        /\ c.session \in {"error", "throw"} => c.request = None
        /\ (c.page = "global" /\ c.response # None)
                => c.location = Some(<<"/dashboard">>)

\* C30: a sheet has at most one save outstanding; the payload waiting for
\* the timer is the last edit; a sheet of a user who is not the owner sends
\* nothing; and when a loaded sheet has no unsaved changes and no save
\* outstanding, the last edit was sent and the draft is the last payload
\* saved.
AutosaveSendsEveryEdit ==
    \A c \in inflight : c.kind = "sheet" =>
        /\ Len(c.outstanding) <= 1
        /\ c.pendingPayload # None => c.pendingPayload = c.lastEdit
        /\ c.user # c.project.user_id => c.sent = {}
        /\ (c.query = "success" /\ ~c.hasLocalChanges /\ c.outstanding = <<>>) =>
                /\ c.lastEdit # None => c.lastEdit[1] \in c.sent
                /\ c.saved # None => c.draft = c.saved

====
